---------------------------- MODULE Spec2Model ----------------------------
(***************************************************************************)
(* Model of qubesappmenus (src/qubesappmenus/__init__.py): the per-VM      *)
(* synchronisation of application descriptors into launcher files.         *)
(*                                                                         *)
(* File names, paths and file contents are strings, and the Python string  *)
(* methods the code uses (startswith, endswith, replace, split, rstrip,    *)
(* os.path.join, os.path.basename) are computed character by character.    *)
(* The file system is a map from path to content plus a set of             *)
(* directories.  One operation of the class Appmenus is one action; what   *)
(* the operation did (files written, files unlinked, registrar calls) is   *)
(* kept in `trace` until the invoking process returns.                     *)
(***************************************************************************)
EXTENDS Integers, Sequences, FiniteSets, TLC

VARIABLES
    vms,        \* VM name -> properties supplied by the administration layer
    features,   \* VM name -> feature store (key -> value)
    files,      \* path -> content of every regular file
    dirs,       \* set of existing directories
    mtime,      \* path -> modification time of every icon file
    now,        \* the time of the system clock
    target,     \* the VM this session works on
    pc,         \* "idle": between operations; "done": an operation completed
    op,         \* the operation that completed last, with its arguments
    trace,      \* what that operation did, in program order
    ret,        \* what that operation returned
    lastsync,   \* snapshot taken when appmenus_create last completed
    edits       \* number of changes made to the environment so far

vars == <<vms, features, files, dirs, mtime, now, target, pc, op, trace, ret, lastsync, edits>>

(***************************************************************************)
(* Bounds of the model.                                                    *)
(***************************************************************************)
MaxEdits == 2

MaxTime == 1

\* the longest list handed to set_whitelist and set_default_whitelist
MaxList == 2

(***************************************************************************)
(* Python str methods.                                                     *)
(***************************************************************************)
startswith(s, p) ==
    Len(s) >= Len(p) /\ SubSeq(s, 1, Len(p)) = p

endswith(s, p) ==
    Len(s) >= Len(p) /\ SubSeq(s, Len(s) - Len(p) + 1, Len(s)) = p

\* index (1-based) of the first occurrence of sub in s at or after i, else 0
find(s, sub, i) ==
    LET at == {j \in i..(Len(s) - Len(sub) + 1) : SubSeq(s, j, j + Len(sub) - 1) = sub}
    IN  IF at = {} THEN 0 ELSE CHOOSE j \in at : \A k \in at : j <= k

contains(s, sub) == find(s, sub, 1) # 0

RECURSIVE replace(_, _, _)
replace(s, old, new) ==
    LET i == find(s, old, 1)
    IN  IF i = 0 THEN s
        ELSE SubSeq(s, 1, i - 1) \o new
             \o replace(SubSeq(s, i + Len(old), Len(s)), old, new)

RECURSIVE split(_, _)
\* s.split(sep): every occurrence of sep separates, empty pieces are kept
split(s, sep) ==
    LET i == find(s, sep, 1)
    IN  IF i = 0 THEN <<s>>
        ELSE <<SubSeq(s, 1, i - 1)>> \o split(SubSeq(s, i + Len(sep), Len(s)), sep)

Whitespace == {" ", "\t", "\n", "\r", "\f"}

\* the positions of s that hold no whitespace
Inked(s) == {j \in 1..Len(s) : SubSeq(s, j, j) \notin Whitespace}

rstrip(s) ==
    IF Inked(s) = {} THEN ""
    ELSE SubSeq(s, 1, CHOOSE j \in Inked(s) : \A k \in Inked(s) : k <= j)

lstrip(s) ==
    IF Inked(s) = {} THEN ""
    ELSE SubSeq(s, CHOOSE j \in Inked(s) : \A k \in Inked(s) : j <= k, Len(s))

strip(s) == lstrip(rstrip(s))

RECURSIVE readlines(_)
\* iteration over an open text file: each line keeps its newline
readlines(s) ==
    LET i == find(s, "\n", 1)
    IN  IF s = "" THEN <<>>
        ELSE IF i = 0 THEN <<s>>
        ELSE <<SubSeq(s, 1, i)>> \o readlines(SubSeq(s, i + 1, Len(s)))

\* index of the last occurrence of the character c in s at or before i, else 0
rfind(s, c, i) ==
    LET at == {j \in 1..i : SubSeq(s, j, j) = c}
    IN  IF at = {} THEN 0 ELSE CHOOSE j \in at : \A k \in at : k <= j

Range(seq) == {seq[i] : i \in 1..Len(seq)}

(***************************************************************************)
(* os.path                                                                 *)
(***************************************************************************)
join(a, b) ==
    IF startswith(b, "/") THEN b
    ELSE IF a = "" \/ endswith(a, "/") THEN a \o b
    ELSE a \o "/" \o b

basename(p) == SubSeq(p, rfind(p, "/", Len(p)) + 1, Len(p))

dirname(p) ==
    LET i == rfind(p, "/", Len(p))
    IN  IF i = 0 THEN "" ELSE IF i = 1 THEN "/" ELSE SubSeq(p, 1, i - 1)


(***************************************************************************)
(* The universe the model draws from.                                      *)
(***************************************************************************)
\* xdg_data_home/qubes-appmenus
basedir == "/qa"

\* tpl: a TemplateVM; work: an AppVM based on tpl that is a template for
\* disposables; d1: a DispVM based on work
VMs == {"tpl", "work", "d1"}

NoVM == ""

\* vm.app.local_name: the name of the domain this program runs in
local_name == "dom0"

\* what an icon file holds when the converter cannot read it
Corrupt == "corrupt"

\* vm.icon and vm.label.name
Icon(vm) == IF vm = "tpl" THEN "templatevm-black" ELSE "appvm-red"

LabelName(vm) == IF vm = "tpl" THEN "black" ELSE "red"

\* vm.label.color
LabelColor(vm) == IF vm = "tpl" THEN "0x000000" ELSE "0xcc0000"

\* descriptor file names provisioned into apps.templates
DescNames == {"a.desktop", "b.desktop"}

\* icon file names provisioned into apps.tempicons
IconNames == {"a.png", "b.png"}

\* descriptor contents: DescFull launches in the VM and in a disposable,
\* DescFull2 is DescFull with one field modified, DescNoDisp has no
\* disposable launch command
DescFull == "[Desktop Entry]\nName=%VMNAME%: App\nIcon=%VMDIR%/apps.icons/a.png\nExec=run %VMNAME%\nX-Qubes-DispvmExec=drun %VMNAME%\n"

DescFull2 == "[Desktop Entry]\nName=%VMNAME%: Other\nIcon=%VMDIR%/apps.icons/a.png\nExec=run %VMNAME%\nX-Qubes-DispvmExec=drun %VMNAME%\n"

DescNoDisp == "[Desktop Entry]\nName=%VMNAME%: App\nIcon=%XDGICON%\nExec=run %VMNAME%\n"

DescContents == {DescFull, DescFull2, DescNoDisp}

(***************************************************************************)
(* Package resources: the bundled template texts.                          *)
(***************************************************************************)
ResourceNames ==
    {"qubes-dispvm.directory.template", "qubes-templatedispvm.directory.template",
     "qubes-templatevm.directory.template", "qubes-servicevm.directory.template",
     "qubes-vm.directory.template", "qubes-vm-settings.desktop.template",
     "qubes-start.desktop.template"}

resource_string(name) ==
    CASE name = "qubes-dispvm.directory.template" ->
            "[Desktop Entry]\nType=Directory\nName=Disposable: %VMNAME%\nIcon=%XDGICON%\n"
      [] name = "qubes-templatedispvm.directory.template" ->
            "[Desktop Entry]\nType=Directory\nName=Disposable template: %VMNAME%\nIcon=%XDGICON%\n"
      [] name = "qubes-templatevm.directory.template" ->
            "[Desktop Entry]\nType=Directory\nName=Template: %VMNAME%\nIcon=%XDGICON%\n"
      [] name = "qubes-servicevm.directory.template" ->
            "[Desktop Entry]\nType=Directory\nName=Service: %VMNAME%\nIcon=%XDGICON%\n"
      [] name = "qubes-vm.directory.template" ->
            "[Desktop Entry]\nType=Directory\nName=Domain: %VMNAME%\nIcon=%XDGICON%\n"
      [] name = "qubes-vm-settings.desktop.template" ->
            "[Desktop Entry]\nType=Application\nExec=qubes-vm-settings %VMNAME%\nIcon=qubes-appmenu-select\nName=%VMNAME%: Qube Settings\n"
      [] name = "qubes-start.desktop.template" ->
            "[Desktop Entry]\nType=Application\nExec=qvm-start %VMNAME%\nIcon=%XDGICON%\nName=%VMNAME%: Start\n"

(***************************************************************************)
(* Names and paths (class AppmenusSubdirs, class Appmenus).                *)
(***************************************************************************)
templates_subdir == "apps.templates"

template_icons_subdir == "apps.tempicons"

subdir == "apps"

icons_subdir == "apps.icons"

whitelist == "whitelisted-appmenus.list"

qubes_vm_desktop == "org.qubes-os.vm"

qubes_dispvm_desktop == "org.qubes-os.dispvm"

qubes_vm_desktop_settings == "org.qubes-os.qubes-vm-settings"

appmenus_dir(vm) == join(join(basedir, vm), subdir)

icons_dir(vm) == join(join(basedir, vm), icons_subdir)

whitelist_path(vm) == join(join(basedir, vm), whitelist)

\* '.'.join((prefix, str(vm), appmenu_basename)); the code asserts that
\* appmenu_basename ends with '.desktop', which every name of DescNames does
desktop_name(vm, appmenu_basename, dispvm) ==
    (IF dispvm THEN qubes_dispvm_desktop ELSE qubes_vm_desktop)
        \o "." \o vm \o "." \o appmenu_basename

settings_name(vm) == qubes_vm_desktop_settings \o "." \o vm \o "." \o "desktop"

_is_old_path(name) ==
    ~(startswith(name, "org.qubes-os.") \/ startswith(name, "qubes-vm-directory-"))

_old_directory_path(vm) == join(appmenus_dir(vm), vm \o ".vm.directory")

_directory_path(vm, dispvm) ==
    join(appmenus_dir(vm),
         IF dispvm THEN "qubes-dispvm-directory-" \o vm \o ".directory"
         ELSE "qubes-vm-directory-" \o vm \o ".directory")


(***************************************************************************)
(* VM objects.  vms[vm].template = NoVM models a VM without the attribute  *)
(* `template`; has_tfd = FALSE models a VM class without the property      *)
(* template_for_dispvms (reading it raises QubesNoSuchPropertyError).      *)
(***************************************************************************)
hasattr_template(vm) == vms[vm].template # NoVM

\* truth value of a feature value: the store holds strings
truthy(value) == value # ""

\* vm.features.get(key, False)
features_get(vm, key) ==
    IF key \in DOMAIN features[vm] THEN features[vm][key] ELSE ""

\* a resolution that stops at the VM's own directory
templates_dirs_own(vm, template) ==
    <<join(join(basedir, vm), templates_subdir)>>

RECURSIVE templates_dirs(_, _)
templates_dirs(vm, template) ==
    LET my_dir == join(join(basedir, vm), templates_subdir)
    IN  <<my_dir>> \o
        (IF template # NoVM THEN templates_dirs(template, NoVM)
         ELSE IF hasattr_template(vm) THEN templates_dirs(vms[vm].template, NoVM)
         ELSE <<>>)

RECURSIVE template_icons_dirs(_)
template_icons_dirs(vm) ==
    LET my_dir == join(join(basedir, vm), template_icons_subdir)
    IN  <<my_dir>> \o
        (IF hasattr_template(vm) THEN template_icons_dirs(vms[vm].template)
         ELSE <<>>)

directory_template_name(vm, dispvm) ==
    IF dispvm THEN "qubes-dispvm.directory.template"
    ELSE IF vms[vm].has_tfd /\ vms[vm].tfd THEN "qubes-templatedispvm.directory.template"
    ELSE IF vms[vm].klass = "TemplateVM" THEN "qubes-templatevm.directory.template"
    ELSE IF vms[vm].provides_network THEN "qubes-servicevm.directory.template"
    ELSE "qubes-vm.directory.template"

(***************************************************************************)
(* Rendering (the text write_desktop_file computes before it compares and  *)
(* writes).  raised: DispvmNotSupportedError.                              *)
(***************************************************************************)
\* a rendering that never refuses a descriptor in disposable mode
write_desktop_file_data_lenient(vmname, source, dispvm) ==
    LET source2 == IF dispvm
                   THEN replace(replace(source, "\nExec=", "\nX-Qubes-NonDispvmExec="),
                                "\nX-Qubes-DispvmExec=", "\nExec=")
                   ELSE source
        icon == IF dispvm THEN "dispvm-" \o LabelName(vmname) ELSE Icon(vmname)
    IN  [raised |-> FALSE,
         data |-> replace(replace(replace(source2, "%VMNAME%", vmname),
                                  "%VMDIR%", join(basedir, vmname)),
                          "%XDGICON%", icon)]

write_desktop_file_data(vmname, source, dispvm) ==
    LET unsupported == dispvm /\ ~contains(source, "\nX-Qubes-DispvmExec=")
                              /\ contains(source, "\nExec=")
        source2 == IF dispvm
                   THEN replace(replace(source, "\nExec=", "\nX-Qubes-NonDispvmExec="),
                                "\nX-Qubes-DispvmExec=", "\nExec=")
                   ELSE source
        icon == IF dispvm THEN "dispvm-" \o LabelName(vmname) ELSE Icon(vmname)
        data == replace(replace(replace(source2, "%VMNAME%", vmname),
                                "%VMDIR%", join(basedir, vmname)),
                        "%XDGICON%", icon)
    IN  [raised |-> unsupported, data |-> IF unsupported THEN "" ELSE data]

\* every text that is ever rendered
Sources == DescContents \cup {resource_string(n) : n \in ResourceNames}

\* write_desktop_file_data, computed once for every input of the universe
RenderTab ==
    [k \in Sources \X VMs \X BOOLEAN |-> write_desktop_file_data(k[2], k[1], k[3])]

(***************************************************************************)
(* The file system.  A state of the running operation is a record          *)
(* [files, dirs, mtime, trace, exc].                                       *)
(***************************************************************************)
\* the apps.templates directories and the descriptor paths in them
TemplatesDir(vm) == join(join(basedir, vm), templates_subdir)

\* file names left in an apps directory by the old naming scheme
OldNames(vm) == {vm \o "-a.desktop", vm \o "-vm.directory"}

\* the descriptor appmenus_init seeds a VM without template with
SeedName == "qubes-start.desktop"

AppsNames(vm) ==
    {basename(_directory_path(vm, d)) : d \in BOOLEAN}
    \cup {settings_name(vm)}
    \cup {desktop_name(vm, n, d) : n \in DescNames \cup {SeedName}, d \in BOOLEAN}
    \cup OldNames(vm)

\* the apps.tempicons directory of vm
TemplateIconsDir(vm) == join(join(basedir, vm), template_icons_subdir)

AllFilePaths ==
    UNION {{join(TemplatesDir(vm), n) : n \in DescNames \cup {SeedName}}
           \cup {join(appmenus_dir(vm), n) : n \in AppsNames(vm)}
           \cup {join(TemplateIconsDir(vm), n) : n \in IconNames}
           \cup {join(icons_dir(vm), n) : n \in IconNames}
           \cup {join(join(basedir, vm), prefix \o whitelist) :
                    prefix \in {"", "vm-", "netvm-"}} : vm \in VMs}

\* os.path.dirname and os.path.basename of every path of the universe
PathTab == [p \in AllFilePaths |-> [dir |-> dirname(p), base |-> basename(p)]]

exists(st, path) == path \in DOMAIN st.files \/ path \in st.dirs

isdir(st, path) == path \in st.dirs

listdir(st, dir) == {PathTab[p].base : p \in {q \in DOMAIN st.files : PathTab[q].dir = dir}}

RECURSIVE ancestors(_)
\* the directories os.makedirs creates when they are missing
ancestors(dir) == IF dir = basedir \/ Len(dir) <= 1 THEN {} ELSE {dir} \cup ancestors(dirname(dir))

makedirs(st, dir) ==
    [st EXCEPT !.dirs = @ \cup ancestors(dir),
               !.trace = Append(@, [t |-> "mkdir", path |-> dir])]

write(st, path, data) ==
    [st EXCEPT !.files = [q \in DOMAIN @ \cup {path} |-> IF q = path THEN data ELSE @[q]],
               !.trace = Append(@, [t |-> "write", path |-> path])]

\* os.unlink of files that exist
unlink(st, paths) ==
    [st EXCEPT !.files = [q \in DOMAIN @ \ paths |-> @[q]],
               !.mtime = [q \in DOMAIN @ \ paths |-> @[q]],
               !.trace = Append(@, [t |-> "unlink", paths |-> paths])]

(***************************************************************************)
(* write_desktop_file: [st, changed, raised]                               *)
(***************************************************************************)
\* a write_desktop_file that leaves an existing destination alone
write_desktop_file_keep(st, vm, source, destination_path, dispvm) ==
    LET text == IF startswith(source, "/") THEN st.files[source] ELSE source
        r == RenderTab[<<text, vm, dispvm>>]
    IN  IF r.raised THEN [st |-> st, changed |-> FALSE, raised |-> TRUE]
        ELSE IF destination_path \in DOMAIN st.files
        THEN [st |-> st, changed |-> FALSE, raised |-> FALSE]
        ELSE [st |-> write(st, destination_path, r.data),
              changed |-> TRUE, raised |-> FALSE]

write_desktop_file(st, vm, source, destination_path, dispvm) ==
    LET text == IF startswith(source, "/") THEN st.files[source] ELSE source
        r == RenderTab[<<text, vm, dispvm>>]
    IN  IF r.raised THEN [st |-> st, changed |-> FALSE, raised |-> TRUE]
        ELSE IF destination_path \in DOMAIN st.files
                /\ st.files[destination_path] = r.data
        THEN [st |-> st, changed |-> FALSE, raised |-> FALSE]
        ELSE [st |-> write(st, destination_path, r.data),
              changed |-> TRUE, raised |-> FALSE]

(***************************************************************************)
(* get_available_filenames.  order: the order in which os.listdir lists    *)
(* names (a sequence holding every name once).                             *)
(***************************************************************************)
listdir_seq(st, dir, order) == SelectSeq(order, LAMBDA n : n \in listdir(st, dir))

RECURSIVE get_available_from(_, _, _, _)
get_available_from(st, dirseq, listed, order) ==
    IF dirseq = <<>> THEN <<>>
    ELSE LET template_dir == Head(dirseq)
             fresh == SelectSeq(listdir_seq(st, template_dir, order),
                                LAMBDA n : n \notin listed)
         IN  [i \in 1..Len(fresh) |-> join(template_dir, fresh[i])]
             \o get_available_from(st, Tail(dirseq), listed \cup Range(fresh), order)

\* a listing that walks the directories farthest first
get_available_filenames_farthest(st, vm, template, order) ==
    LET existing == SelectSeq(templates_dirs(vm, template), LAMBDA x : isdir(st, x))
    IN  get_available_from(st, [i \in 1..Len(existing) |-> existing[Len(existing) + 1 - i]],
                           {}, order)

get_available_filenames(st, vm, template, order) ==
    LET all_dirs == templates_dirs(vm, template)
        existing == SelectSeq(all_dirs, LAMBDA x : isdir(st, x))
    IN  get_available_from(st, existing, {}, order)


(***************************************************************************)
(* get_available: the records the generator yields before it ends or       *)
(* raises.  A record is <<file name, display name, field values...>>.      *)
(***************************************************************************)
\* Python's None, which no string and no sequence equals
None == "None"

RECURSIVE _available_scan(_, _, _, _, _)
\* the loop over the lines of one descriptor: [name, field_values]
_available_scan(lines, fields, main_section, name, field_values) ==
    IF lines = <<>> THEN [name |-> name, field_values |-> field_values]
    ELSE LET line == Head(lines)
             eq == find(line, "=", 1)
             field_name == strip(SubSeq(line, 1, eq - 1))
             value == strip(SubSeq(line, eq + 1, Len(line)))
             is_name == startswith(line, "Name=%VMNAME%: ")
             name2 == IF is_name
                      THEN strip(SubSeq(line, Len("Name=%VMNAME%: ") + 1, Len(line)))
                      ELSE name
         IN  IF startswith(line, "[")
             THEN _available_scan(Tail(lines), fields, line = "[Desktop Entry]\n",
                                  name, field_values)
             ELSE IF ~main_section \/ eq = 0
             THEN _available_scan(Tail(lines), fields, main_section, name, field_values)
             ELSE IF is_name /\ fields = <<>>
             THEN [name |-> name2, field_values |-> field_values]
             ELSE _available_scan(Tail(lines), fields, main_section, name2,
                      IF fields # <<>> /\ field_name \in Range(fields)
                      THEN [x \in DOMAIN field_values \cup {field_name} |->
                               IF x = field_name THEN value ELSE field_values[x]]
                      ELSE field_values)

\* the record of one descriptor
_available_result(filename, fields, scanned) ==
    <<basename(filename), scanned.name>>
    \o [i \in 1..Len(fields) |->
           IF fields[i] \in DOMAIN scanned.field_values
           THEN scanned.field_values[fields[i]] ELSE ""]

RECURSIVE _available_skipping(_, _, _, _)
\* a loop that passes over a descriptor without name
_available_skipping(st, filenames, fields, yielded) ==
    IF filenames = <<>> THEN [yielded |-> yielded, exc |-> ""]
    ELSE LET scanned == _available_scan(readlines(st.files[Head(filenames)]), fields,
                                        FALSE, None, [x \in {} |-> ""])
         IN  _available_skipping(st, Tail(filenames), fields,
                 IF scanned.name = None THEN yielded
                 ELSE Append(yielded, _available_result(Head(filenames), fields, scanned)))

RECURSIVE _available_loop(_, _, _, _)
\* the loop over the file names; the assertion ends it
_available_loop(st, filenames, fields, yielded) ==
    IF filenames = <<>> THEN [yielded |-> yielded, exc |-> ""]
    ELSE LET scanned == _available_scan(readlines(st.files[Head(filenames)]), fields,
                                        FALSE, None, [x \in {} |-> ""])
         IN  IF scanned.name = None
             THEN [yielded |-> yielded, exc |-> "AssertionError"]
             ELSE _available_loop(st, Tail(filenames), fields,
                      Append(yielded, _available_result(Head(filenames), fields, scanned)))

\* fields = <<>>: the argument is None
get_available(st, vm, fields, template, order) ==
    _available_loop(st, get_available_filenames(st, vm, template, order), fields, <<>>)

(***************************************************************************)
(* The menu registrar (xdg-desktop-menu), called through                   *)
(* subprocess.check_call.  ok = FALSE: the process exits non-zero          *)
(* (CalledProcessError), which the callers turn into a warning.            *)
(***************************************************************************)
xdg_desktop_menu(st, cmd, refresh_cache, paths, ok, warning) ==
    LET called == [st EXCEPT !.trace = Append(@,
                      [t |-> "call", cmd |-> cmd, noupdate |-> ~refresh_cache,
                       args |-> paths, ok |-> ok])]
    IN  IF ok THEN called
        ELSE [called EXCEPT !.trace = Append(@, [t |-> "warn", msg |-> warning])]

RECURSIVE Perms(_)
\* every order in which the elements of a set can be iterated
Perms(S) ==
    IF S = {} THEN {<<>>}
    ELSE UNION {{<<x>> \o rest : rest \in Perms(S \ {x})} : x \in S}

\* a sort that puts the names ending in .directory last
_sort_entries_last(entry) ==
    LET last == {x \in entry : endswith(x, ".directory")}
    IN  {a \o b : a \in Perms(entry \ last), b \in Perms(last)}

\* sorted(entry, key=lambda x: not x.endswith('.directory')): the sort is
\* stable and the set is iterated in no particular order
_sort_entries(entry) ==
    LET first == {x \in entry : endswith(x, ".directory")}
    IN  {a \o b : a \in Perms(first), b \in Perms(entry \ first)}

\* one batch of _do_remove_appmenus: the states it can end in
_do_remove_batch(sts, entry, appmenus_dir_, refresh_cache) ==
    IF entry = {} THEN sts
    ELSE {xdg_desktop_menu(st, "uninstall", refresh_cache,
                           [i \in 1..Len(bad_menus) |-> join(appmenus_dir_, bad_menus[i])],
                           ok, "Problem removing appmenus") :
            st \in sts, bad_menus \in _sort_entries(entry), ok \in BOOLEAN}

_do_remove_appmenus(st, appmenus_to_remove, appmenus_dir_, refresh_cache) ==
    LET old_appmenus == {fname \in appmenus_to_remove : _is_old_path(fname)}
        new_appmenus == appmenus_to_remove \ old_appmenus
    IN  _do_remove_batch(
            _do_remove_batch({st}, old_appmenus, appmenus_dir_, refresh_cache),
            new_appmenus, appmenus_dir_, refresh_cache)

\* a filter that reads the legacy list first
_appmenus_whitelisted_legacy(st, vm, appmenus) ==
    IF exists(st, whitelist_path(vm))
    THEN LET wl == {rstrip(x) : x \in Range(readlines(st.files[whitelist_path(vm)]))}
         IN  SelectSeq(appmenus, LAMBDA x : PathTab[x].base \in wl)
    ELSE IF "menu-items" \in DOMAIN features[vm]
    THEN LET wl == Range(split(features[vm]["menu-items"], " "))
         IN  SelectSeq(appmenus, LAMBDA x : PathTab[x].base \in wl)
    ELSE appmenus

(***************************************************************************)
(* The whitelist filter of the launcher synchronizer: the descriptor       *)
(* paths of `appmenus` it keeps.                                           *)
(***************************************************************************)
_appmenus_whitelisted(st, vm, appmenus) ==
    IF "menu-items" \in DOMAIN features[vm]
    THEN LET wl == Range(split(features[vm]["menu-items"], " "))
         IN  SelectSeq(appmenus, LAMBDA x : PathTab[x].base \in wl)
    ELSE IF exists(st, whitelist_path(vm))
    THEN LET wl == {rstrip(x) : x \in Range(readlines(st.files[whitelist_path(vm)]))}
         IN  SelectSeq(appmenus, LAMBDA x : PathTab[x].base \in wl)
    ELSE appmenus

RECURSIVE _appmenus_render(_, _, _, _)
\* the loop over the whitelisted descriptors: [st, changed_appmenus]
_appmenus_render(acc, vm, appmenus, dispvm) ==
    IF appmenus = <<>> THEN acc
    ELSE LET appmenu == Head(appmenus)
             fname == join(appmenus_dir(vm),
                           desktop_name(vm, PathTab[appmenu].base, dispvm))
             w == write_desktop_file(acc.st, vm, appmenu, fname, dispvm)
             next == IF w.raised
                     THEN [st |-> IF fname \in DOMAIN acc.st.files
                                  THEN unlink(acc.st, {fname}) ELSE acc.st,
                           changed_appmenus |-> acc.changed_appmenus]
                     ELSE [st |-> w.st,
                           changed_appmenus |->
                               IF w.changed THEN Append(acc.changed_appmenus, fname)
                               ELSE acc.changed_appmenus]
         IN  _appmenus_render(next, vm, Tail(appmenus), dispvm)

(***************************************************************************)
(* _appmenus_create_onedir: the set of states one pass can end in.  The    *)
(* body is split at the points where the code has computed a value it      *)
(* uses later; each part hands the values on as arguments.                 *)
(* order: the listing order of os.listdir; kde: KDE_SESSION_UID is in the  *)
(* process environment.                                                    *)
(***************************************************************************)
\* an install step that calls the registrar whenever something changed or
\* force is set, with or without a launcher to register
_onedir_install_always(sts, vm, force, refresh_cache, dispvm, kde, directory_changed, changed_appmenus, target_appmenus) ==
    LET dir == appmenus_dir(vm)
        anything_changed == directory_changed \/ changed_appmenus # <<>>
        full == (directory_changed /\ changed_appmenus = <<>>) \/ force
        install_args ==
            <<_directory_path(vm, dispvm)>> \o
            (IF full THEN [i \in 1..Len(target_appmenus) |-> join(dir, target_appmenus[i])]
             ELSE changed_appmenus)
        installed == IF anything_changed \/ force
                     THEN {xdg_desktop_menu(s3, "install", refresh_cache, install_args,
                                            ok, "Problem creating appmenus") :
                             s3 \in sts, ok \in BOOLEAN}
                     ELSE sts
    IN  IF refresh_cache /\ kde
        THEN {[s4 EXCEPT !.trace = Append(@, [t |-> "kbuildsycoca"])] : s4 \in installed}
        ELSE installed

\* "add new entries" and the cache refresh; sts: the states the removal
\* can have ended in
_onedir_install(sts, vm, force, refresh_cache, dispvm, kde, directory_changed, changed_appmenus, target_appmenus) ==
    LET dir == appmenus_dir(vm)
        anything_changed == directory_changed \/ changed_appmenus # <<>>
        full == (directory_changed /\ changed_appmenus = <<>>) \/ force
        install_args ==
            <<_directory_path(vm, dispvm)>> \o
            (IF full THEN [i \in 1..Len(target_appmenus) |-> join(dir, target_appmenus[i])]
             ELSE changed_appmenus)
        do_anything == (anything_changed \/ force)
                       /\ IF full THEN target_appmenus # <<>> ELSE changed_appmenus # <<>>
        installed == IF do_anything
                     THEN {xdg_desktop_menu(s3, "install", refresh_cache, install_args,
                                            ok, "Problem creating appmenus") :
                             s3 \in sts, ok \in BOOLEAN}
                     ELSE sts
    IN  IF refresh_cache /\ kde
        THEN {[s4 EXCEPT !.trace = Append(@, [t |-> "kbuildsycoca"])] : s4 \in installed}
        ELSE installed

\* a removal that spares the disposable files in every pass
_onedir_to_remove_sparing(installed_appmenus, target_appmenus, dispvm, keep_dispvm) ==
    {x \in installed_appmenus \ Range(target_appmenus) :
        ~startswith(x, qubes_dispvm_desktop) /\ ~startswith(x, "qubes-dispvm-directory-")}

\* the launchers to remove, out of what os.listdir finds in the directory
_onedir_to_remove(installed_appmenus, target_appmenus, dispvm, keep_dispvm) ==
    LET stale == installed_appmenus \ Range(target_appmenus)
    IN  IF keep_dispvm
        THEN {x \in stale : ~startswith(x, qubes_dispvm_desktop)
                            /\ ~startswith(x, "qubes-dispvm-directory-")}
        ELSE IF dispvm
        THEN {x \in stale : ~startswith(x, qubes_vm_desktop)
                            /\ ~startswith(x, "qubes-vm-directory-")}
        ELSE stale

\* a removal that unregisters the launchers and leaves the files
_onedir_unlink_forgotten(s1, vm, refresh_cache, appmenus_to_remove) ==
    _do_remove_appmenus(s1, appmenus_to_remove, appmenus_dir(vm), refresh_cache)

\* a removal that leaves the files when the registrar has failed
_onedir_unlink_unless_failed(s1, vm, refresh_cache, appmenus_to_remove) ==
    {IF appmenus_to_remove = {} \/ s2.trace[Len(s2.trace)].t = "warn" THEN s2
     ELSE unlink(s2, {join(appmenus_dir(vm), x) : x \in appmenus_to_remove}) :
       s2 \in _do_remove_appmenus(s1, appmenus_to_remove, appmenus_dir(vm), refresh_cache)}

\* unregister and unlink them
_onedir_unlink(s1, vm, refresh_cache, appmenus_to_remove) ==
    {IF appmenus_to_remove = {} THEN s2
     ELSE unlink(s2, {join(appmenus_dir(vm), x) : x \in appmenus_to_remove}) :
       s2 \in _do_remove_appmenus(s1, appmenus_to_remove, appmenus_dir(vm), refresh_cache)}

\* "remove old entries", then the rest
_onedir_remove(s1, vm, force, refresh_cache, dispvm, keep_dispvm, kde, directory_changed, changed_appmenus, target_appmenus) ==
    _onedir_install(
        _onedir_unlink(s1, vm, refresh_cache,
            _onedir_to_remove(
                listdir(s1, appmenus_dir(vm)) \ {PathTab[_directory_path(vm, dispvm)].base},
                target_appmenus, dispvm, keep_dispvm)),
        vm, force, refresh_cache, dispvm, kde,
        directory_changed, changed_appmenus, target_appmenus)

\* the settings launcher of a normal pass; ws: what writing it gave
_onedir_settings(ws, vm, force, refresh_cache, keep_dispvm, kde, directory_changed, changed_appmenus, target_launchers) ==
    _onedir_remove(ws.st, vm, force, refresh_cache, FALSE, keep_dispvm, kde,
        directory_changed,
        IF ws.changed
        THEN Append(changed_appmenus, join(appmenus_dir(vm), settings_name(vm)))
        ELSE changed_appmenus,
        Append(target_launchers, settings_name(vm)))

\* target_appmenus and "if not dispvm"; rendered: what the loop gave
_onedir_target(rendered, vm, force, refresh_cache, dispvm, keep_dispvm, kde, directory_changed, target_launchers) ==
    IF dispvm
    THEN _onedir_remove(rendered.st, vm, force, refresh_cache, TRUE, keep_dispvm, kde,
                        directory_changed, rendered.changed_appmenus, target_launchers)
    ELSE _onedir_settings(
             write_desktop_file(rendered.st, vm,
                 resource_string("qubes-vm-settings.desktop.template"),
                 join(appmenus_dir(vm), settings_name(vm)), FALSE),
             vm, force, refresh_cache, keep_dispvm, kde,
             directory_changed, rendered.changed_appmenus, target_launchers)

\* the loop over the whitelisted descriptors `appmenus`
_onedir_loop(st, vm, force, refresh_cache, dispvm, keep_dispvm, kde, directory_changed, appmenus) ==
    _onedir_target(
        _appmenus_render([st |-> st, changed_appmenus |-> <<>>], vm, appmenus, dispvm),
        vm, force, refresh_cache, dispvm, keep_dispvm, kde, directory_changed,
        [i \in 1..Len(appmenus) |-> desktop_name(vm, PathTab[appmenus[i]].base, dispvm)])

\* wd: what writing the directory file gave (a rendering error leaves the
\* operation with the exception)
_onedir_directory(wd, vm, force, refresh_cache, dispvm, keep_dispvm, order, kde) ==
    IF wd.raised
    THEN {[wd.st EXCEPT !.exc = "DispvmNotSupportedError"]}
    ELSE _onedir_loop(wd.st, vm, force, refresh_cache, dispvm, keep_dispvm, kde,
             wd.changed,
             _appmenus_whitelisted(wd.st, vm,
                 get_available_filenames(wd.st, vm, NoVM, order)))

\* the trace records where a pass begins
_onedir_begin(st, dispvm) ==
    [st EXCEPT !.trace = Append(@, [t |-> "pass", dispvm |-> dispvm])]

_onedir_makedirs(st, vm) ==
    IF ~exists(st, appmenus_dir(vm)) THEN makedirs(st, appmenus_dir(vm)) ELSE st

_appmenus_create_onedir(st, vm, force, refresh_cache, dispvm, keep_dispvm, order, kde) ==
    _onedir_directory(
        write_desktop_file(
            _onedir_makedirs(_onedir_begin(st, dispvm), vm),
            vm, resource_string(directory_template_name(vm, dispvm)),
            _directory_path(vm, dispvm), dispvm),
        vm, force, refresh_cache, dispvm, keep_dispvm, order, kde)

(***************************************************************************)
(* appmenus_create: the set of states the operation can end in.            *)
(***************************************************************************)
\* a skip test that knows disposables only
skipped_disposable_only(vm) ==
    vms[vm].klass = "DispVM" /\ vms[vm].auto_cleanup

skipped(vm) ==
    \/ truthy(features_get(vm, "internal"))
    \/ vms[vm].klass = "DispVM" /\ vms[vm].auto_cleanup

\* vm.template_for_dispvms and vm.features.get('appmenus-dispvm', False);
\* False when the property does not exist
dispvm_enabled(vm) ==
    vms[vm].has_tfd /\ vms[vm].tfd /\ truthy(features_get(vm, "appmenus-dispvm"))

appmenus_create(st, vm, force, refresh_cache, order, kde) ==
    IF skipped(vm) THEN {st}
    ELSE LET dispvm == dispvm_enabled(vm)
             pass1 == _appmenus_create_onedir(st, vm, force, refresh_cache,
                                              FALSE, dispvm, order, kde)
         IN  IF dispvm
             THEN UNION {IF s1.exc # "" THEN {s1}
                         ELSE _appmenus_create_onedir(s1, vm, force, refresh_cache,
                                                      TRUE, FALSE, order, kde) :
                           s1 \in pass1}
             ELSE pass1


(***************************************************************************)
(* Icons: appicons_create.                                                 *)
(***************************************************************************)
\* os.path.splitext(p)[0]: p up to its last dot, unless only dots precede it
splitext_root(p) ==
    LET sep == rfind(p, "/", Len(p))
        dot == rfind(p, ".", Len(p))
    IN  IF dot > sep /\ \E j \in (sep + 1)..(dot - 1) : SubSeq(p, j, j) # "."
        THEN SubSeq(p, 1, dot - 1)
        ELSE p

\* the first path of name in template_dirs that exists, "" for None
template_for_file(st, template_dirs, name) ==
    LET found == {i \in 1..Len(template_dirs) : exists(st, join(template_dirs[i], name))}
    IN  IF found = {} THEN ""
        ELSE join(template_dirs[CHOOSE i \in found : \A k \in found : i <= k], name)

\* a converter that consumes its source: src is gone once dst is written
tint_consuming(st, src, dst, colour) ==
    IF st.files[src] = Corrupt
    THEN [st EXCEPT !.exc = "tint",
                    !.trace = Append(@, [t |-> "tint", src |-> src, dst |-> dst])]
    ELSE
    [st EXCEPT !.files = [q \in (DOMAIN @ \cup {dst}) \ {src} |->
                             IF q = dst THEN colour \o ":" \o st.files[src] ELSE @[q]],
               !.mtime = [q \in (DOMAIN @ \cup {dst}) \ {src} |-> IF q = dst THEN now ELSE @[q]],
               !.trace = Append(@, [t |-> "tint", src |-> src, dst |-> dst])]

\* qubesimgconverter.tint(src, dst, colour): dst becomes the tinted image;
\* the converter raises on a source it cannot read
tint(st, src, dst, colour) ==
    IF st.files[src] = Corrupt
    THEN [st EXCEPT !.exc = "tint",
                    !.trace = Append(@, [t |-> "tint", src |-> src, dst |-> dst])]
    ELSE
    [st EXCEPT !.files = [q \in DOMAIN @ \cup {dst} |->
                             IF q = dst THEN colour \o ":" \o st.files[src] ELSE @[q]],
               !.mtime = [q \in DOMAIN @ \cup {dst} |-> IF q = dst THEN now ELSE @[q]],
               !.trace = Append(@, [t |-> "tint", src |-> src, dst |-> dst])]

\* the whitelist appicons_create reads: none = TRUE for None
_appicons_whitelist(st, vm) ==
    IF "menu-items" \in DOMAIN features[vm]
    THEN [none |-> FALSE, list |-> split(features[vm]["menu-items"], " ")]
    ELSE IF exists(st, whitelist_path(vm))
    THEN LET lines == readlines(st.files[whitelist_path(vm)])
         IN  [none |-> FALSE, list |-> [i \in 1..Len(lines) |-> strip(lines[i])]]
    ELSE [none |-> TRUE, list |-> <<>>]

RECURSIVE _appicons_listing(_, _, _)
\* itertools.chain of os.listdir(srcdir) over the srcdirs that exist
_appicons_listing(st, srcdirs, order) ==
    IF srcdirs = <<>> THEN <<>>
    ELSE (IF exists(st, Head(srcdirs)) THEN listdir_seq(st, Head(srcdirs), order) ELSE <<>>)
         \o _appicons_listing(st, Tail(srcdirs), order)

_appicons_expected(st, wl, srcdirs, order) ==
    IF ~wl.none /\ wl.list # <<>>
    THEN [i \in 1..Len(wl.list) |-> splitext_root(wl.list[i]) \o ".png"]
    ELSE _appicons_listing(st, srcdirs, order)

RECURSIVE _appicons_loop_eager(_, _, _, _, _)
\* a loop that also regenerates an icon as old as its source
_appicons_loop_eager(st, vm, srcdirs, icons, force) ==
    IF icons = <<>> \/ st.exc # "" THEN st
    ELSE LET icon == Head(icons)
             src_icon == template_for_file(st, srcdirs, icon)
             dst_icon == join(icons_dir(vm), icon)
             stale == \/ ~exists(st, dst_icon)
                      \/ force
                      \/ st.mtime[src_icon] >= st.mtime[dst_icon]
         IN  _appicons_loop_eager(
                 IF src_icon # "" /\ stale
                 THEN tint(st, src_icon, dst_icon, LabelColor(vm)) ELSE st,
                 vm, srcdirs, Tail(icons), force)

RECURSIVE _appicons_loop(_, _, _, _, _)
\* the loop over expected_icons
_appicons_loop(st, vm, srcdirs, icons, force) ==
    IF icons = <<>> \/ st.exc # "" THEN st
    ELSE LET icon == Head(icons)
             src_icon == template_for_file(st, srcdirs, icon)
             dst_icon == join(icons_dir(vm), icon)
             stale == \/ ~exists(st, dst_icon)
                      \/ force
                      \/ st.mtime[src_icon] > st.mtime[dst_icon]
         IN  _appicons_loop(
                 IF src_icon # "" /\ stale
                 THEN tint(st, src_icon, dst_icon, LabelColor(vm)) ELSE st,
                 vm, srcdirs, Tail(icons), force)

\* the final loop: the icons of dstdir that are not expected are unlinked
_appicons_clean(st, vm, expected_icons) ==
    LET gone == {icon \in listdir(st, icons_dir(vm)) : icon \notin Range(expected_icons)}
    IN  IF gone = {} \/ st.exc # "" THEN st ELSE unlink(st, {join(icons_dir(vm), icon) : icon \in gone})

\* dstdir is made a directory
_appicons_dstdir(st, dstdir) ==
    IF ~exists(st, dstdir) THEN makedirs(st, dstdir)
    ELSE IF ~isdir(st, dstdir) THEN makedirs(unlink(st, {dstdir}), dstdir)
    ELSE st

\* from "if whitelist:" on; st: the state with dstdir made, wl: the
\* whitelist read before
_appicons_sync(st, vm, srcdirs, wl, force, order) ==
    _appicons_clean(
        _appicons_loop(st, vm, srcdirs, _appicons_expected(st, wl, srcdirs, order), force),
        vm, _appicons_expected(st, wl, srcdirs, order))

\* srcdirs = <<>>: the default, the VM's own template_icons_dirs
appicons_create(st, vm, srcdirs, force, order) ==
    IF skipped(vm) THEN st
    ELSE _appicons_sync(
             _appicons_dstdir(st, icons_dir(vm)), vm,
             IF srcdirs = <<>> THEN template_icons_dirs(vm) ELSE srcdirs,
             _appicons_whitelist(st, vm), force, order)

(***************************************************************************)
(* Removal: appmenus_remove and appicons_remove.  They take a VM object or *)
(* the name of a VM that may be gone; both are turned into the name with   *)
(* str(vm), and only where the messages go depends on which was given.     *)
(***************************************************************************)
\* shutil.rmtree(dir): the directory, and all that is below it, is gone
rmtree(st, dir) ==
    [st EXCEPT !.files = [q \in {r \in DOMAIN @ : ~startswith(r, dir \o "/")} |-> @[q]],
               !.mtime = [q \in {r \in DOMAIN @ : ~startswith(r, dir \o "/")} |-> @[q]],
               !.dirs = {d \in @ : d # dir /\ ~startswith(d, dir \o "/")},
               !.trace = Append(@, [t |-> "rmtree", path |-> dir])]

\* "Removing appmenus": vm.log.info of a VM object, stderr for a name
_remove_announce(st, live) ==
    [st EXCEPT !.trace = Append(@, [t |-> "info", to |-> IF live THEN "vm.log" ELSE "stderr"])]

\* a removal that keeps the directory when the registrar has failed
appmenus_remove_cautious(st, vm, live, refresh_cache, kde) ==
    LET dir == appmenus_dir(vm)
    IN  IF exists(st, dir)
        THEN {IF \E i \in 1..Len(s1.trace) : s1.trace[i].t = "warn" THEN s1
              ELSE rmtree(s1, dir) :
                s1 \in _do_remove_appmenus(_remove_announce(st, live),
                                           listdir(st, dir), dir, refresh_cache)}
        ELSE {st}

appmenus_remove(st, vm, live, refresh_cache, kde) ==
    LET dir == appmenus_dir(vm)
        removed == IF exists(st, dir)
                   THEN {rmtree(s1, dir) :
                           s1 \in _do_remove_appmenus(_remove_announce(st, live),
                                                      listdir(st, dir), dir, refresh_cache)}
                   ELSE {st}
    IN  IF refresh_cache /\ kde
        THEN {[s2 EXCEPT !.trace = Append(@, [t |-> "kbuildsycoca"])] : s2 \in removed}
        ELSE removed

\* a removal that does not test whether the icons directory exists
appicons_remove_unguarded(st, vm) == rmtree(st, icons_dir(vm))

appicons_remove(st, vm) ==
    IF ~exists(st, icons_dir(vm)) THEN st ELSE rmtree(st, icons_dir(vm))

(***************************************************************************)
(* get_whitelist: the entries the generator yields, in order.              *)
(***************************************************************************)
get_whitelist_of(fe, st, vm) ==
    IF "menu-items" \in DOMAIN fe
    THEN SelectSeq([i \in 1..Len(split(fe["menu-items"], " ")) |->
                       strip(split(fe["menu-items"], " ")[i])],
                   LAMBDA entry : entry # "")
    ELSE IF ~exists(st, whitelist_path(vm)) THEN <<>>
    ELSE SelectSeq([i \in 1..Len(readlines(st.files[whitelist_path(vm)])) |->
                       strip(readlines(st.files[whitelist_path(vm)])[i])],
                   LAMBDA line : line # "")

\* get_whitelist(vm), on the feature store as it is
get_whitelist(st, vm) == get_whitelist_of(features[vm], st, vm)

(***************************************************************************)
(* appmenus_update: the VM, then the VMs based on it.  The trace records   *)
(* where the work for each VM begins.                                      *)
(***************************************************************************)
\* vm.appvms: the VMs whose template is vm
appvms(vm) == {c \in VMs : vms[c].template = vm}

\* launcher sync first, icon sync after it
_update_sync_menus_first(st, vm, force_icons, force_menus, iorder, order) ==
    LET begun == [st EXCEPT !.trace = Append(@, [t |-> "update", vm |-> vm])]
    IN  UNION {IF menus.exc # "" THEN {menus}
               ELSE {appicons_create(menus, vm, <<>>, force_icons, iorder)} :
                 menus \in appmenus_create(begun, vm, force_menus, FALSE, order, FALSE)}

\* icon sync, then launcher sync (refresh_cache=False), of one VM; an
\* exception of the first leaves the second undone
_update_sync(st, vm, force_icons, force_menus, iorder, order) ==
    LET begun == [st EXCEPT !.trace = Append(@, [t |-> "update", vm |-> vm])]
        icons == appicons_create(begun, vm, <<>>, force_icons, iorder)
    IN  IF icons.exc # "" THEN {icons}
        ELSE appmenus_create(icons, vm, force_menus, FALSE, order, FALSE)

\* the body of the loop over vm.appvms: the try block and its handler
_update_child(sts, child_vm, force, iorder, order) ==
    IF vms[child_vm].guivm # local_name THEN sts
    ELSE UNION {{IF s2.exc # ""
                 THEN [s2 EXCEPT !.exc = "",
                                 !.trace = Append(@, [t |-> "error", vm |-> child_vm])]
                 ELSE s2 :
                   s2 \in _update_sync(s1, child_vm, force, FALSE, iorder, order)} :
                 s1 \in sts}

RECURSIVE _update_children_fragile(_, _, _, _, _)
\* a loop that ends at the first child whose sync has failed
_update_children_fragile(sts, children, force, iorder, order) ==
    IF children = <<>> THEN sts
    ELSE LET done == _update_child(sts, Head(children), force, iorder, order)
         IN  {s \in done : s.trace[Len(s.trace)].t = "error"}
             \cup _update_children_fragile(
                      {s \in done : s.trace[Len(s.trace)].t # "error"},
                      Tail(children), force, iorder, order)

RECURSIVE _update_children(_, _, _, _, _)
\* the loop over vm.appvms, which yields the VMs in the order `children`
_update_children(sts, children, force, iorder, order) ==
    IF children = <<>> THEN sts
    ELSE _update_children(_update_child(sts, Head(children), force, iorder, order),
                          Tail(children), force, iorder, order)

\* 'xdg-desktop-menu forceupdate' and the KDE cache
_update_finish(st, kde) ==
    [st EXCEPT !.trace = Append(@, [t |-> "forceupdate"])
                         \o (IF kde THEN <<[t |-> "kbuildsycoca"]>> ELSE <<>>)]

appmenus_update(st, vm, force, children, iorder, order, kde) ==
    UNION {IF own.exc # "" THEN {own}
           ELSE {_update_finish(s, kde) :
                   s \in _update_children({own}, children, force, iorder, order)} :
             own \in _update_sync(st, vm, force, force, iorder, order)}

(***************************************************************************)
(* appmenus_init.  It changes files and the features of vm: its outcome is *)
(* [st, fe], the state of the file system and the feature store of vm.     *)
(***************************************************************************)
\* os.makedirs(dir, exist_ok=True)
makedirs_exist_ok(st, dir) == IF isdir(st, dir) THEN st ELSE makedirs(st, dir)

RECURSIVE join_str(_, _)
\* sep.join(list)
join_str(sep, list) ==
    IF list = <<>> THEN ""
    ELSE IF Len(list) = 1 THEN list[1]
    ELSE list[1] \o sep \o join_str(sep, Tail(list))

\* retrieve_list(path): the lines of the file without trailing whitespace
retrieve_list(st, path) ==
    [i \in 1..Len(readlines(st.files[path])) |-> rstrip(readlines(st.files[path])[i])]

\* vm.features[key] = value
features_set(fe, key, value) ==
    [x \in DOMAIN fe \cup {key} |-> IF x = key THEN value ELSE fe[x]]

\* shutil.copy of every file of src_dir into own_dir
_init_copy(st, src_dir, own_dir) ==
    IF ~isdir(st, src_dir) THEN st
    ELSE LET made == makedirs_exist_ok(st, own_dir)
             names == listdir(st, src_dir)
             copied == {join(own_dir, n) : n \in names}
             origin(q) == join(src_dir, PathTab[q].base)
         IN  [made EXCEPT
                !.files = [q \in DOMAIN @ \cup copied |->
                              IF q \in copied THEN st.files[origin(q)] ELSE @[q]],
                !.mtime = [q \in DOMAIN @ \cup {c \in copied : origin(c) \in DOMAIN st.mtime} |->
                              IF q \in copied THEN now ELSE @[q]],
                !.trace = Append(@, [t |-> "copy", from |-> src_dir, to |-> own_dir,
                                     names |-> names])]

\* a set_whitelist that joins the names with commas
set_whitelist_commas(fe, applications_list) ==
    features_set(fe, "menu-items", join_str(",", applications_list))

\* set_whitelist(vm, applications_list), on the feature store fe of vm
set_whitelist(fe, applications_list) ==
    features_set(fe, "menu-items", join_str(" ", applications_list))

\* set_default_whitelist(vm, applications_list)
set_default_whitelist(fe, applications_list) ==
    features_set(fe, "default-menu-items", join_str(" ", applications_list))

RECURSIVE _init_lists(_, _, _, _)
\* the loop over the prefixes '', 'vm-', 'netvm-' of a clone
_init_lists(st, fe, src, prefixes) ==
    IF prefixes = <<>> THEN fe
    ELSE LET prefix == Head(prefixes)
             path == join(join(basedir, src), prefix \o whitelist)
         IN  _init_lists(st,
                 IF exists(st, path) /\ (prefix \o "menu-items") \notin DOMAIN fe
                 THEN features_set(fe, prefix \o "menu-items",
                                   join_str(" ", retrieve_list(st, path)))
                 ELSE fe,
                 src, Tail(prefixes))

\* a clone that merges the directories src inherits into the copy
_init_clone_merged(st, fe, vm, src) ==
    LET tdirs == templates_dirs(src, NoVM)
        idirs == template_icons_dirs(src)
        deep == IF Len(tdirs) > 1
                THEN _init_copy(_init_copy(st, tdirs[2], TemplatesDir(vm)),
                                idirs[2], TemplateIconsDir(vm))
                ELSE st
    IN  [st |-> _init_copy(_init_copy(deep, tdirs[1], TemplatesDir(vm)),
                           idirs[1], TemplateIconsDir(vm)),
         fe |-> _init_lists(st, fe, src, <<"", "vm-", "netvm-">>)]

\* "if clone_from_src:": the lists and the templates of src are copied
_init_clone(st, fe, vm, src) ==
    [st |-> _init_copy(
                _init_copy(st, templates_dirs(src, NoVM)[1], TemplatesDir(vm)),
                template_icons_dirs(src)[1], TemplateIconsDir(vm)),
     fe |-> _init_lists(st, fe, src, <<"", "vm-", "netvm-">>)]

\* a propagation that reads the legacy list of src first
_init_default_legacy_first(st, fe, src) ==
    LET path == join(join(basedir, src), "vm-" \o whitelist)
    IN  IF src # NoVM /\ ("default-menu-items" \in DOMAIN features[src] \/ exists(st, path))
        THEN IF exists(st, path)
             THEN features_set(fe, "menu-items", join_str(" ", retrieve_list(st, path)))
             ELSE features_set(fe, "menu-items", features[src]["default-menu-items"])
        ELSE fe

\* the default whitelist of src becomes the whitelist of vm
_init_default(st, fe, src) ==
    LET path == join(join(basedir, src), "vm-" \o whitelist)
    IN  IF src # NoVM /\ ("default-menu-items" \in DOMAIN features[src] \/ exists(st, path))
        THEN IF "default-menu-items" \in DOMAIN features[src]
             THEN features_set(fe, "menu-items", features[src]["default-menu-items"])
             ELSE features_set(fe, "menu-items", join_str(" ", retrieve_list(st, path)))
        ELSE fe

\* a bootstrap that seeds every VM
_init_bootstrap_always(st, vm, src) ==
    write(makedirs_exist_ok(makedirs_exist_ok(st, TemplatesDir(vm)),
                            TemplateIconsDir(vm)),
          join(TemplatesDir(vm), SeedName),
          resource_string("qubes-start.desktop.template"))

\* "if src is None:": the own directories and the seed descriptor
_init_bootstrap(st, vm, src) ==
    IF src # NoVM THEN st
    ELSE write(makedirs_exist_ok(makedirs_exist_ok(st, TemplatesDir(vm)),
                                 TemplateIconsDir(vm)),
               join(TemplatesDir(vm), SeedName),
               resource_string("qubes-start.desktop.template"))

\* from "own_templates_dir = ..." on; src: the explicit source, else the
\* template, else NoVM
_init_from(st, fe, vm, src, clone_from_src) ==
    IF clone_from_src
    THEN _init_clone(_init_bootstrap(st, vm, src),
                     _init_default(_init_bootstrap(st, vm, src), fe, src), vm, src)
    ELSE [st |-> _init_bootstrap(st, vm, src),
          fe |-> _init_default(_init_bootstrap(st, vm, src), fe, src)]

\* src = NoVM: the argument is None
appmenus_init(st, fe, vm, src) ==
    _init_from(makedirs_exist_ok(st, join(basedir, vm)), fe, vm,
               IF src # NoVM THEN src
               ELSE IF hasattr_template(vm) THEN vms[vm].template ELSE NoVM,
               src # NoVM)

(***************************************************************************)
(* State of the session.                                                   *)
(***************************************************************************)
EmptyFn == [x \in {} |-> ""]

NoOp == [name |-> "none"]

NoSync == [done |-> FALSE]

\* the orders in which os.listdir may list an apps.templates directory
ListingOrders == Perms(DescNames)

\* the state an operation starts in
Running == [files |-> files, dirs |-> dirs, mtime |-> mtime, trace |-> <<>>, exc |-> ""]

RECURSIVE chain(_)
\* vm and its templates, nearest first
chain(vm) == <<vm>> \o (IF hasattr_template(vm) THEN chain(vms[vm].template) ELSE <<>>)

\* what a sync of vm reads: its features, its descriptors, its legacy list
InputPaths(vm) ==
    {p \in DOMAIN files :
        \/ PathTab[p].dir \in {TemplatesDir(v) : v \in Range(chain(vm))}
        \/ p = whitelist_path(vm)}

Inputs(vm) ==
    [features |-> features[vm],
     src |-> [p \in InputPaths(vm) |-> files[p]]]

\* the files of an apps directory, in the file map fs
AppsFiles(fs, vm) ==
    [p \in {q \in DOMAIN fs : PathTab[q].dir = appmenus_dir(vm)} |-> fs[p]]

StaticVMs ==
    [vm \in VMs |->
        CASE vm = "tpl" ->
                [klass |-> "TemplateVM", template |-> NoVM, has_tfd |-> FALSE,
                 tfd |-> FALSE, auto_cleanup |-> FALSE, provides_network |-> FALSE,
                 guivm |-> local_name]
          [] vm = "work" ->
                [klass |-> "AppVM", template |-> "tpl", has_tfd |-> TRUE,
                 tfd |-> TRUE, auto_cleanup |-> FALSE, provides_network |-> FALSE,
                 guivm |-> local_name]
          [] vm = "d1" ->
                [klass |-> "DispVM", template |-> "work", has_tfd |-> FALSE,
                 tfd |-> FALSE, auto_cleanup |-> TRUE, provides_network |-> FALSE,
                 guivm |-> local_name]]

\* tpl has received its descriptors; work and d1 are initialised and empty
Init ==
    /\ vms = StaticVMs
    /\ features = [vm \in VMs |-> EmptyFn]
    /\ files = [p \in {join(TemplatesDir("tpl"), n) : n \in DescNames}
                       \cup {join(TemplateIconsDir("tpl"), n) : n \in IconNames} |->
                   IF PathTab[p].dir = TemplatesDir("tpl") THEN DescFull ELSE "png"]
    /\ dirs = {basedir} \cup ancestors(TemplatesDir("tpl"))
                \cup ancestors(TemplateIconsDir("tpl"))
                \cup {join(basedir, vm) : vm \in VMs}
    /\ mtime = [p \in {join(TemplateIconsDir("tpl"), n) : n \in IconNames} |-> 0]
    /\ now = 0
    /\ target \in VMs
    /\ pc = "idle"
    /\ op = NoOp
    /\ trace = <<>>
    /\ ret = <<>>
    /\ lastsync = NoSync
    /\ edits = 0

(***************************************************************************)
(* The operations.                                                         *)
(***************************************************************************)
\* appmenus_create(target, force, refresh_cache)
Create(kde) ==
    /\ pc = "idle"
    /\ \E force \in BOOLEAN, refresh_cache \in BOOLEAN, order \in ListingOrders :
         \E out \in appmenus_create(Running, target, force, refresh_cache, order, kde) :
            /\ files' = out.files
            /\ dirs' = out.dirs
            /\ mtime' = out.mtime
            /\ trace' = out.trace
            /\ op' = [name |-> "appmenus_create", vm |-> target, force |-> force,
                      refresh_cache |-> refresh_cache, exc |-> out.exc]
            /\ lastsync' = IF skipped(target) THEN lastsync
                           ELSE [done |-> TRUE, inputs |-> Inputs(target),
                                 apps |-> AppsFiles(out.files, target)]
    /\ pc' = "done"
    /\ UNCHANGED <<vms, features, now, target, ret, edits>>

\* the invoking process ends: what it did and returned is gone
Return ==
    /\ pc = "done"
    /\ pc' = "idle"
    /\ op' = NoOp
    /\ trace' = <<>>
    /\ ret' = <<>>
    /\ UNCHANGED <<vms, features, files, dirs, mtime, now, target, lastsync, edits>>

(***************************************************************************)
(* The environment: what other programs and the administrator change       *)
(* between two operations.                                                 *)
(***************************************************************************)
Edit ==
    /\ pc = "idle"
    /\ edits < MaxEdits
    /\ edits' = edits + 1
    /\ UNCHANGED <<vms, mtime, now, target, pc, op, trace, ret, lastsync>>

\* a descriptor is received into (or updated in) an apps.templates directory
WriteDescriptor ==
    /\ Edit
    /\ \E vm \in Range(chain(target)), n \in DescNames, c \in DescContents :
         LET path == join(TemplatesDir(vm), n)
         IN  /\ ~(path \in DOMAIN files /\ files[path] = c)
             /\ files' = [q \in DOMAIN files \cup {path} |->
                             IF q = path THEN c ELSE files[q]]
             /\ dirs' = dirs \cup ancestors(TemplatesDir(vm))
    /\ UNCHANGED features

RemoveDescriptor ==
    /\ Edit
    /\ \E vm \in Range(chain(target)), n \in DescNames :
         LET path == join(TemplatesDir(vm), n)
         IN  /\ path \in DOMAIN files
             /\ files' = [q \in DOMAIN files \ {path} |-> files[q]]
    /\ UNCHANGED <<dirs, features>>

FeatureValues ==
    [k \in {"menu-items", "appmenus-dispvm", "internal"} |->
        CASE k = "menu-items" -> {"a.desktop", "a.desktop b.desktop"}
          [] k = "appmenus-dispvm" -> {"1"}
          [] k = "internal" -> {"1"}]

\* qvm-features target key value
SetFeature ==
    /\ Edit
    /\ \E k \in DOMAIN FeatureValues : \E v \in FeatureValues[k] :
         /\ features_get(target, k) # v
         /\ features' = [features EXCEPT ![target] =
                            [x \in DOMAIN @ \cup {k} |-> IF x = k THEN v ELSE @[x]]]
    /\ UNCHANGED <<files, dirs>>

\* qvm-features --unset target key
DelFeature ==
    /\ Edit
    /\ \E k \in DOMAIN features[target] :
         features' = [features EXCEPT ![target] = [x \in DOMAIN @ \ {k} |-> @[x]]]
    /\ UNCHANGED <<files, dirs>>

LegacyLists == {"b.desktop\n", "a.desktop\nb.desktop\n"}

\* a legacy whitelisted-appmenus.list, as versions before the feature wrote it
WriteWhitelistFile ==
    /\ Edit
    /\ \E c \in LegacyLists :
         /\ ~(whitelist_path(target) \in DOMAIN files /\ files[whitelist_path(target)] = c)
         /\ files' = [q \in DOMAIN files \cup {whitelist_path(target)} |->
                         IF q = whitelist_path(target) THEN c ELSE files[q]]
    /\ UNCHANGED <<dirs, features>>

RemoveWhitelistFile ==
    /\ Edit
    /\ whitelist_path(target) \in DOMAIN files
    /\ files' = [q \in DOMAIN files \ {whitelist_path(target)} |-> files[q]]
    /\ UNCHANGED <<dirs, features>>

\* a file the old naming scheme left in the apps directory
Litter ==
    /\ Edit
    /\ \E n \in OldNames(target) :
         LET path == join(appmenus_dir(target), n)
         IN  /\ path \notin DOMAIN files
             /\ files' = [q \in DOMAIN files \cup {path} |->
                             IF q = path THEN "old" ELSE files[q]]
             /\ dirs' = dirs \cup ancestors(appmenus_dir(target))
    /\ UNCHANGED features

\* the orders in which os.listdir may list an icons directory
IconListingOrders == Perms(IconNames)

\* appicons_create(target, force=force)
AppiconsCreate ==
    /\ pc = "idle"
    /\ \E force \in BOOLEAN, order \in IconListingOrders :
         LET out == appicons_create(Running, target, <<>>, force, order)
         IN  /\ files' = out.files
             /\ dirs' = out.dirs
             /\ mtime' = out.mtime
             /\ trace' = out.trace
             /\ op' = [name |-> "appicons_create", vm |-> target, force |-> force]
    /\ pc' = "done"
    /\ UNCHANGED <<vms, features, now, target, ret, lastsync, edits>>

\* list(get_whitelist(target))
GetWhitelist ==
    /\ pc = "idle"
    /\ ret' = get_whitelist(Running, target)
    /\ op' = [name |-> "get_whitelist", vm |-> target]
    /\ pc' = "done"
    /\ UNCHANGED <<vms, features, files, dirs, mtime, now, target, trace, lastsync, edits>>

Next ==
    \/ Create(FALSE)
    \/ Return
    \/ WriteDescriptor
    \/ RemoveDescriptor
    \/ SetFeature
    \/ DelFeature
    \/ WriteWhitelistFile
    \/ RemoveWhitelistFile
    \/ Litter

Spec == Init /\ [][Next]_vars

(***************************************************************************)
(* The whitelist readers: launcher sync, icon sync and get_whitelist of a  *)
(* VM whose feature and legacy list are edited between operations.         *)
(***************************************************************************)
NextWhitelist ==
    \/ Create(FALSE)
    \/ AppiconsCreate
    \/ GetWhitelist
    \/ Return
    \/ SetFeature
    \/ DelFeature
    \/ WriteWhitelistFile
    \/ RemoveWhitelistFile

SpecWhitelist == Init /\ [][NextWhitelist]_vars

(***************************************************************************)
(* Resolution of the template chain: templates_dirs, template_icons_dirs   *)
(* and get_available_filenames applied to every acyclic template graph     *)
(* over VMs and every population of the apps.templates directories.        *)
(***************************************************************************)
RECURSIVE Hop(_, _, _)
\* the VM reached from vm by k steps along g, NoVM past the end
Hop(g, vm, k) ==
    IF vm = NoVM \/ k = 0 THEN vm ELSE Hop(g, g[vm], k - 1)

\* every acyclic template relation over VMs
Graphs ==
    {g \in [VMs -> VMs \cup {NoVM}] : \A vm \in VMs : Hop(g, vm, Cardinality(VMs)) = NoVM}

InitResolve ==
    /\ \E g \in Graphs : vms = [vm \in VMs |-> [StaticVMs[vm] EXCEPT !.template = g[vm]]]
    /\ features = [vm \in VMs |-> EmptyFn]
    /\ \E made \in SUBSET VMs : \E has \in [made -> SUBSET DescNames] :
         /\ dirs = {basedir} \cup {join(basedir, vm) : vm \in VMs}
                     \cup {TemplatesDir(vm) : vm \in made}
         /\ files = [p \in UNION {{join(TemplatesDir(vm), n) : n \in has[vm]} : vm \in made}
                       |-> DescFull]
    /\ mtime = [x \in {} |-> 0]
    /\ now = 0
    /\ target \in VMs
    /\ pc = "idle"
    /\ op = NoOp
    /\ trace = <<>>
    /\ ret = <<>>
    /\ lastsync = NoSync
    /\ edits = 0

Resolved == UNCHANGED <<vms, features, files, dirs, mtime, now, target, trace, lastsync, edits>>

\* templates_dirs(target, template)
TemplatesDirs ==
    /\ pc = "idle"
    /\ \E template \in VMs \cup {NoVM} :
         /\ ret' = templates_dirs(target, template)
         /\ op' = [name |-> "templates_dirs", vm |-> target, template |-> template]
    /\ pc' = "done"
    /\ Resolved

\* template_icons_dirs(target)
TemplateIconsDirs ==
    /\ pc = "idle"
    /\ ret' = template_icons_dirs(target)
    /\ op' = [name |-> "template_icons_dirs", vm |-> target]
    /\ pc' = "done"
    /\ Resolved

\* list(get_available_filenames(target, template))
GetAvailableFilenames ==
    /\ pc = "idle"
    /\ \E template \in VMs \cup {NoVM}, order \in ListingOrders :
         /\ ret' = get_available_filenames(Running, target, template, order)
         /\ op' = [name |-> "get_available_filenames", vm |-> target,
                   template |-> template]
    /\ pc' = "done"
    /\ Resolved

NextResolve ==
    \/ TemplatesDirs
    \/ TemplateIconsDirs
    \/ GetAvailableFilenames
    \/ Return

SpecResolve == InitResolve /\ [][NextResolve]_vars


(***************************************************************************)
(* Whether a whitelist is in effect: launcher sync and icon sync of a VM   *)
(* whose whitelist is written, emptied and removed between operations.     *)
(***************************************************************************)
\* the whitelist is emptied: set_whitelist(target, []) sets the feature to
\* the empty string, versions before the feature wrote an empty list file
ClearWhitelist ==
    /\ Edit
    /\ \/ /\ features_get(target, "menu-items") # "" \/ "menu-items" \notin DOMAIN features[target]
          /\ features' = [features EXCEPT ![target] =
                             [x \in DOMAIN @ \cup {"menu-items"} |->
                                 IF x = "menu-items" THEN "" ELSE @[x]]]
          /\ UNCHANGED <<files, dirs>>
       \/ /\ ~(whitelist_path(target) \in DOMAIN files /\ files[whitelist_path(target)] = "")
          /\ files' = [q \in DOMAIN files \cup {whitelist_path(target)} |->
                          IF q = whitelist_path(target) THEN "" ELSE files[q]]
          /\ UNCHANGED <<dirs, features>>

NextActive ==
    \/ Create(FALSE)
    \/ AppiconsCreate
    \/ Return
    \/ WriteWhitelistFile
    \/ RemoveWhitelistFile
    \/ ClearWhitelist

SpecActive == Init /\ [][NextActive]_vars

(***************************************************************************)
(* Icon synchronisation over time: icon sources are received and removed,  *)
(* the whitelist changes, and the clock advances between operations.       *)
(***************************************************************************)
\* the clock advances (os.path.getmtime has the clock's granularity)
Tick ==
    /\ pc = "idle"
    /\ now < MaxTime
    /\ now' = now + 1
    /\ UNCHANGED <<vms, features, files, dirs, mtime, target, pc, op, trace, ret, lastsync, edits>>

\* an icon is received into (or written again in) an apps.tempicons
\* directory
WriteIcon ==
    /\ pc = "idle"
    /\ edits < MaxEdits
    /\ edits' = edits + 1
    /\ \E vm \in Range(chain(target)), n \in IconNames :
         LET path == join(TemplateIconsDir(vm), n)
         IN  /\ ~(path \in DOMAIN files /\ mtime[path] = now)
             /\ files' = [q \in DOMAIN files \cup {path} |->
                             IF q = path THEN "png" ELSE files[q]]
             /\ mtime' = [q \in DOMAIN mtime \cup {path} |->
                             IF q = path THEN now ELSE mtime[q]]
             /\ dirs' = dirs \cup ancestors(TemplateIconsDir(vm))
    /\ UNCHANGED <<vms, features, now, target, pc, op, trace, ret, lastsync>>

RemoveIcon ==
    /\ pc = "idle"
    /\ edits < MaxEdits
    /\ edits' = edits + 1
    /\ \E vm \in Range(chain(target)), n \in IconNames :
         LET path == join(TemplateIconsDir(vm), n)
         IN  /\ path \in DOMAIN files
             /\ files' = [q \in DOMAIN files \ {path} |-> files[q]]
             /\ mtime' = [q \in DOMAIN mtime \ {path} |-> mtime[q]]
    /\ UNCHANGED <<vms, features, dirs, now, target, pc, op, trace, ret, lastsync>>

NextIcons ==
    \/ AppiconsCreate
    \/ Return
    \/ Tick
    \/ WriteIcon
    \/ RemoveIcon
    \/ SetFeature
    \/ WriteWhitelistFile
    \/ ClearWhitelist

SpecIcons == Init /\ [][NextIcons]_vars

(***************************************************************************)
(* Removal of a VM's menu: syncs and removals of a VM whose apps directory *)
(* also holds files of the old naming scheme.                              *)
(***************************************************************************)
\* appmenus_remove(target, refresh_cache); live: target is given as a VM
\* object, else as its name
AppmenusRemove ==
    /\ pc = "idle"
    /\ \E live \in BOOLEAN, refresh_cache \in BOOLEAN, kde \in BOOLEAN :
         \E out \in appmenus_remove(Running, target, live, refresh_cache, kde) :
            /\ files' = out.files
            /\ dirs' = out.dirs
            /\ mtime' = out.mtime
            /\ trace' = out.trace
            /\ op' = [name |-> "appmenus_remove", vm |-> target, live |-> live,
                      refresh_cache |-> refresh_cache, kde |-> kde]
    /\ lastsync' = NoSync
    /\ pc' = "done"
    /\ UNCHANGED <<vms, features, now, target, ret, edits>>

\* appicons_remove(target)
AppiconsRemove ==
    /\ pc = "idle"
    /\ LET out == appicons_remove(Running, target)
       IN  /\ files' = out.files
           /\ dirs' = out.dirs
           /\ mtime' = out.mtime
           /\ trace' = out.trace
    /\ op' = [name |-> "appicons_remove", vm |-> target]
    /\ pc' = "done"
    /\ UNCHANGED <<vms, features, now, target, ret, lastsync, edits>>

NextRemove ==
    \/ Create(FALSE)
    \/ AppiconsCreate
    \/ AppmenusRemove
    \/ AppiconsRemove
    \/ Return
    \/ Litter

SpecRemove == Init /\ [][NextRemove]_vars


(***************************************************************************)
(* Update of a template and the VMs based on it.  In this specification    *)
(* work and d1 are two AppVMs based on tpl, each shown by this GUI domain   *)
(* or by another one; an icon a VM has received may be unreadable.         *)
(***************************************************************************)
GuiDomains == {local_name, "sys-gui"}

InitUpdate ==
    /\ \E g \in [{"work", "d1"} -> GuiDomains] :
         vms = [vm \in VMs |->
                  IF vm = "tpl" THEN StaticVMs[vm]
                  ELSE [klass |-> "AppVM", template |-> "tpl", has_tfd |-> TRUE,
                        tfd |-> FALSE, auto_cleanup |-> FALSE,
                        provides_network |-> FALSE, guivm |-> g[vm]]]
    /\ features = [vm \in VMs |-> EmptyFn]
    /\ files = [p \in {join(TemplatesDir("tpl"), n) : n \in DescNames}
                       \cup {join(TemplateIconsDir("tpl"), n) : n \in IconNames} |->
                   IF PathTab[p].dir = TemplatesDir("tpl") THEN DescFull ELSE "png"]
    /\ dirs = {basedir} \cup ancestors(TemplatesDir("tpl"))
                \cup ancestors(TemplateIconsDir("tpl"))
                \cup {join(basedir, vm) : vm \in VMs}
    /\ mtime = [p \in {join(TemplateIconsDir("tpl"), n) : n \in IconNames} |-> 0]
    /\ now = 0
    /\ target \in {"tpl", "work"}
    /\ pc = "idle"
    /\ op = NoOp
    /\ trace = <<>>
    /\ ret = <<>>
    /\ lastsync = NoSync
    /\ edits = 0

\* a VM receives an icon the converter cannot read
CorruptIcon ==
    /\ pc = "idle"
    /\ edits < MaxEdits
    /\ edits' = edits + 1
    /\ \E vm \in VMs, n \in IconNames :
         LET path == join(TemplateIconsDir(vm), n)
         IN  /\ ~(path \in DOMAIN files /\ files[path] = Corrupt)
             /\ files' = [q \in DOMAIN files \cup {path} |->
                             IF q = path THEN Corrupt ELSE files[q]]
             /\ mtime' = [q \in DOMAIN mtime \cup {path} |->
                             IF q = path THEN now ELSE mtime[q]]
             /\ dirs' = dirs \cup ancestors(TemplateIconsDir(vm))
    /\ UNCHANGED <<vms, features, now, target, pc, op, trace, ret, lastsync>>

\* appmenus_update(target, force)
Update ==
    /\ pc = "idle"
    /\ \E force \in BOOLEAN, children \in Perms(appvms(target)), kde \in BOOLEAN :
         \E out \in appmenus_update(Running, target, force, children,
                                    CHOOSE o \in IconListingOrders : TRUE,
                                    CHOOSE o \in ListingOrders : TRUE, kde) :
            /\ files' = out.files
            /\ dirs' = out.dirs
            /\ mtime' = out.mtime
            /\ trace' = out.trace
            /\ op' = [name |-> "appmenus_update", vm |-> target, force |-> force,
                      exc |-> out.exc]
    /\ pc' = "done"
    /\ UNCHANGED <<vms, features, now, target, ret, lastsync, edits>>

NextUpdate ==
    \/ Update
    \/ Return
    \/ CorruptIcon

SpecUpdate == InitUpdate /\ [][NextUpdate]_vars

(***************************************************************************)
(* Initialisation of a VM.  No VM but tpl (when it is not the target) has  *)
(* a directory yet; the defaults of the other VMs are set between the      *)
(* operations.                                                             *)
(***************************************************************************)
\* the VMs an init may be given as src, and whose defaults are set
InitSources == {"tpl", "work"} \ {target}

\* the orders in which os.listdir may list a directory holding the seed
SeedListingOrders == Perms(DescNames \cup {SeedName})

\* the files work holds of its own when it was cloned before: one
\* descriptor and its icon
WorkOwn ==
    [p \in {join(TemplatesDir("work"), "a.desktop"),
            join(TemplateIconsDir("work"), "a.png")} |->
        IF PathTab[p].dir = TemplatesDir("work") THEN DescFull2 ELSE "png2"]

\* tpl is provisioned unless it is the target; d1 is initialised from a
\* work that has files of its own, or none
InitFresh ==
    /\ vms = StaticVMs
    /\ features = [vm \in VMs |-> EmptyFn]
    /\ target \in VMs
    /\ \E own \in IF target = "d1" THEN {EmptyFn, WorkOwn} ELSE {EmptyFn} :
         /\ files = IF target = "tpl" THEN EmptyFn
                    ELSE [p \in {join(TemplatesDir("tpl"), n) : n \in DescNames}
                                  \cup {join(TemplateIconsDir("tpl"), n) : n \in IconNames}
                                  \cup DOMAIN own |->
                             IF p \in DOMAIN own THEN own[p]
                             ELSE IF PathTab[p].dir = TemplatesDir("tpl") THEN DescFull
                             ELSE "png"]
         /\ dirs = IF target = "tpl" THEN {basedir}
                   ELSE {basedir} \cup ancestors(TemplatesDir("tpl"))
                          \cup ancestors(TemplateIconsDir("tpl"))
                          \cup UNION {ancestors(PathTab[p].dir) : p \in DOMAIN own}
         /\ mtime = IF target = "tpl" THEN EmptyFn
                    ELSE [p \in {join(TemplateIconsDir("tpl"), n) : n \in IconNames}
                                  \cup {q \in DOMAIN own : PathTab[q].dir = TemplateIconsDir("work")} |-> 0]
    /\ now = 0
    /\ pc = "idle"
    /\ op = NoOp
    /\ trace = <<>>
    /\ ret = <<>>
    /\ lastsync = NoSync
    /\ edits = 0

\* appmenus_init(target, src)
AppmenusInit ==
    /\ pc = "idle"
    /\ \E src \in {NoVM} \cup InitSources :
         LET out == appmenus_init(Running, features[target], target, src)
         IN  /\ files' = out.st.files
             /\ dirs' = out.st.dirs
             /\ mtime' = out.st.mtime
             /\ trace' = out.st.trace
             /\ features' = [features EXCEPT ![target] = out.fe]
             /\ op' = [name |-> "appmenus_init", vm |-> target, src |-> src,
                       exc |-> out.st.exc]
    /\ pc' = "done"
    /\ UNCHANGED <<vms, now, target, ret, lastsync, edits>>

\* appmenus_create(target), as main calls it for --create, with the seed
\* listed
CreateAfterInit ==
    /\ pc = "idle"
    /\ \E order \in SeedListingOrders :
         \E out \in appmenus_create(Running, target, FALSE, TRUE, order, FALSE) :
            /\ files' = out.files
            /\ dirs' = out.dirs
            /\ mtime' = out.mtime
            /\ trace' = out.trace
            /\ op' = [name |-> "appmenus_create", vm |-> target, force |-> FALSE,
                      refresh_cache |-> TRUE, exc |-> out.exc]
            /\ lastsync' = IF skipped(target) THEN lastsync
                           ELSE [done |-> TRUE, inputs |-> Inputs(target),
                                 apps |-> AppsFiles(out.files, target)]
    /\ pc' = "done"
    /\ UNCHANGED <<vms, features, now, target, ret, edits>>

\* set_default_whitelist(vm, list) on a source
SetDefaultWhitelist ==
    /\ Edit
    /\ \E vm \in InitSources, list \in {<<"a.desktop">>, <<"a.desktop", "b.desktop">>} :
         /\ features_get(vm, "default-menu-items") # join_str(" ", list)
         /\ features' = [features EXCEPT ![vm] =
                            features_set(@, "default-menu-items", join_str(" ", list))]
    /\ UNCHANGED <<files, dirs>>

\* a legacy list file of a source, as older versions wrote it
WriteLegacyList ==
    /\ Edit
    /\ \E vm \in InitSources, prefix \in {"", "vm-", "netvm-"}, c \in LegacyLists :
         LET path == join(join(basedir, vm), prefix \o whitelist)
         IN  /\ ~(path \in DOMAIN files /\ files[path] = c)
             /\ files' = [q \in DOMAIN files \cup {path} |->
                             IF q = path THEN c ELSE files[q]]
             /\ dirs' = dirs \cup {join(basedir, vm)}
    /\ UNCHANGED features

NextInit ==
    \/ AppmenusInit
    \/ CreateAfterInit
    \/ Return
    \/ SetDefaultWhitelist
    \/ WriteLegacyList

SpecInit == InitFresh /\ [][NextInit]_vars

(***************************************************************************)
(* The whitelist API: set_whitelist, set_default_whitelist, get_whitelist. *)
(***************************************************************************)
RECURSIVE ListsUpTo(_)
\* the lists of at most n descriptor names
ListsUpTo(n) ==
    IF n = 0 THEN {<<>>}
    ELSE ListsUpTo(n - 1) \cup {Append(l, x) : l \in ListsUpTo(n - 1), x \in DescNames}

ApplicationLists == ListsUpTo(MaxList)

\* set_whitelist(target, list)
SetWhitelist ==
    /\ pc = "idle"
    /\ \E list \in ApplicationLists :
         /\ features' = [features EXCEPT ![target] = set_whitelist(@, list)]
         /\ op' = [name |-> "set_whitelist", vm |-> target, list |-> list]
    /\ pc' = "done"
    /\ UNCHANGED <<vms, files, dirs, mtime, now, target, trace, ret, lastsync, edits>>

\* set_default_whitelist(target, list)
SetDefault ==
    /\ pc = "idle"
    /\ \E list \in ApplicationLists :
         /\ features' = [features EXCEPT ![target] = set_default_whitelist(@, list)]
         /\ op' = [name |-> "set_default_whitelist", vm |-> target, list |-> list]
    /\ pc' = "done"
    /\ UNCHANGED <<vms, files, dirs, mtime, now, target, trace, ret, lastsync, edits>>

\* set_whitelist(target, list) and then get_whitelist(target), by one caller
SetThenGet ==
    /\ pc = "idle"
    /\ UNCHANGED <<vms, files, dirs, mtime, now, target, trace, lastsync, edits>>
    /\ \E list \in ApplicationLists :
         /\ features' = [features EXCEPT ![target] = set_whitelist(@, list)]
         /\ op' = [name |-> "set_whitelist get_whitelist", vm |-> target, list |-> list]
         /\ ret' = get_whitelist_of(set_whitelist(features[target], list), Running, target)
    /\ pc' = "done"

NextLists ==
    \/ SetWhitelist
    \/ SetDefault
    \/ SetThenGet
    \/ GetWhitelist
    \/ Return
    \/ WriteWhitelistFile
    \/ RemoveWhitelistFile

SpecLists == Init /\ [][NextLists]_vars

(***************************************************************************)
(* get_available on descriptors as the VM provisioned them: well formed    *)
(* or not.                                                                 *)
(***************************************************************************)
\* a descriptor without Name field, one whose only Name field is in
\* another section, one whose Name field lacks the VM name prefix
DescNoName == "[Desktop Entry]\nExec=run %VMNAME%\n"

DescNameElsewhere == "[Desktop Entry]\nExec=run %VMNAME%\n[Desktop Action new]\nName=%VMNAME%: New\n"

DescPlainName == "[Desktop Entry]\nName=App\nExec=run %VMNAME%\n"

ProvisionedContents == {DescFull, DescNoName, DescNameElsewhere, DescPlainName}

\* tpl holds both descriptors, each with any of the contents
InitAvailable ==
    /\ vms = StaticVMs
    /\ features = [vm \in VMs |-> EmptyFn]
    /\ target \in VMs
    /\ \E c \in [DescNames -> ProvisionedContents] :
         files = [p \in {join(TemplatesDir("tpl"), n) : n \in DescNames} |->
                     c[PathTab[p].base]]
    /\ dirs = {basedir} \cup ancestors(TemplatesDir("tpl"))
                \cup {join(basedir, vm) : vm \in VMs}
    /\ mtime = EmptyFn
    /\ now = 0
    /\ pc = "idle"
    /\ op = NoOp
    /\ trace = <<>>
    /\ ret = <<>>
    /\ lastsync = NoSync
    /\ edits = 0

\* list(get_available(target, fields)), as far as it gets
GetAvailable ==
    /\ pc = "idle"
    /\ \E fields \in {<<>>, <<"Exec">>}, order \in ListingOrders :
         LET out == get_available(Running, target, fields, NoVM, order)
         IN  /\ ret' = out.yielded
             /\ op' = [name |-> "get_available", vm |-> target, fields |-> fields,
                       filenames |-> get_available_filenames(Running, target, NoVM, order),
                       exc |-> out.exc]
    /\ pc' = "done"
    /\ Resolved

NextAvailable ==
    \/ GetAvailable
    \/ Return

SpecAvailable == InitAvailable /\ [][NextAvailable]_vars

(***************************************************************************)
(* write_desktop_file called on its own, twice with the same source: the   *)
(* destinations are files of the apps directory, whatever they hold.       *)
(***************************************************************************)
\* the destinations: a launcher, a disposable launcher, a file of the old
\* naming scheme
Destinations(vm) ==
    {join(appmenus_dir(vm), desktop_name(vm, "a.desktop", FALSE)),
     join(appmenus_dir(vm), desktop_name(vm, "a.desktop", TRUE)),
     join(appmenus_dir(vm), vm \o "-a.desktop")}

\* the sources: a descriptor, by its path, and a bundled template
RenderSources == {join(TemplatesDir("tpl"), "a.desktop"), resource_string("qubes-vm.directory.template")}

\* the apps directory of the target exists and is empty; a.desktop may
\* lack the disposable launch command
InitRender ==
    /\ vms = StaticVMs
    /\ features = [vm \in VMs |-> EmptyFn]
    /\ target \in VMs
    /\ \E c \in {DescFull, DescNoDisp} :
         files = [p \in {join(TemplatesDir("tpl"), n) : n \in DescNames} |->
                     IF PathTab[p].base = "a.desktop" THEN c ELSE DescFull]
    /\ dirs = {basedir} \cup ancestors(TemplatesDir("tpl"))
                \cup {join(basedir, vm) : vm \in VMs}
                \cup ancestors(appmenus_dir(target))
    /\ mtime = EmptyFn
    /\ now = 0
    /\ pc = "idle"
    /\ op = NoOp
    /\ trace = <<>>
    /\ ret = <<>>
    /\ lastsync = NoSync
    /\ edits = 0

\* write_desktop_file(target, source, first, dispvm) and then
\* write_desktop_file(target, source, second, dispvm)
WriteDesktopFileTwice ==
    /\ pc = "idle"
    /\ \E source \in RenderSources, dispvm \in BOOLEAN :
       \E first \in Destinations(target), second \in Destinations(target) :
         LET w1 == write_desktop_file(Running, target, source, first, dispvm)
             w2 == write_desktop_file(w1.st, target, source, second, dispvm)
         IN  /\ files' = w2.st.files
             /\ trace' = w2.st.trace
             /\ op' = [name |-> "write_desktop_file", vm |-> target, source |-> source,
                       dispvm |-> dispvm, first |-> first, second |-> second,
                       raised |-> w1.raised]
             /\ ret' = IF w1.raised THEN <<>> ELSE <<w1.changed, w2.changed>>
    /\ pc' = "done"
    /\ UNCHANGED <<vms, features, dirs, mtime, now, target, lastsync, edits>>

NextRender ==
    \/ WriteDesktopFileTwice
    \/ Return

SpecRender == InitRender /\ [][NextRender]_vars

(***************************************************************************)
(* Launcher sync of a template for disposables: work has the feature       *)
(* 'appmenus-dispvm' set, so every sync runs the normal and the disposable *)
(* pass, while descriptors and features are edited between the syncs.      *)
(***************************************************************************)
InitInstall ==
    /\ vms = StaticVMs
    /\ features = [vm \in VMs |-> IF vm = "work" THEN [k \in {"appmenus-dispvm"} |-> "1"] ELSE EmptyFn]
    /\ files = [p \in {join(TemplatesDir("tpl"), n) : n \in DescNames} |-> DescFull]
    /\ dirs = {basedir} \cup ancestors(TemplatesDir("tpl"))
                \cup {join(basedir, vm) : vm \in VMs}
    /\ mtime = EmptyFn
    /\ now = 0
    /\ target = "work"
    /\ pc = "idle"
    /\ op = NoOp
    /\ trace = <<>>
    /\ ret = <<>>
    /\ lastsync = NoSync
    /\ edits = 0

NextInstall ==
    \/ Create(FALSE)
    \/ Return
    \/ WriteDescriptor
    \/ RemoveDescriptor
    \/ SetFeature
    \/ DelFeature

SpecInstall == InitInstall /\ [][NextInstall]_vars

(***************************************************************************)
(* The three readers of the whitelist (launcher sync, icon sync and        *)
(* get_whitelist) on a VM whose whitelist was written by hand: entries     *)
(* separated by several spaces or tabs, lines with whitespace around the   *)
(* name, blank lines.                                                      *)
(***************************************************************************)
\* values of the feature 'menu-items'
FeatureTexts ==
    {"a.desktop b.desktop", "a.desktop  b.desktop", " a.desktop", "b.desktop \ta.desktop"}

\* contents of whitelisted-appmenus.list
ListTexts ==
    {"a.desktop\nb.desktop\n", "a.desktop\n\nb.desktop\n", "a.desktop \nb.desktop\n",
     " a.desktop\nb.desktop\n"}

InitReaders ==
    /\ vms = StaticVMs
    /\ target = "work"
    /\ \E use_feature \in BOOLEAN :
         /\ \E text \in (IF use_feature THEN FeatureTexts ELSE {""}) :
              features = [vm \in VMs |->
                             IF vm = "work" /\ use_feature THEN [k \in {"menu-items"} |-> text]
                             ELSE EmptyFn]
         /\ \E text \in (IF use_feature THEN {""} ELSE ListTexts) :
              files = [p \in {join(TemplatesDir("tpl"), n) : n \in DescNames}
                               \cup {join(TemplateIconsDir("tpl"), n) : n \in IconNames}
                               \cup (IF use_feature THEN {} ELSE {whitelist_path("work")}) |->
                          IF p = whitelist_path("work") THEN text
                          ELSE IF PathTab[p].dir = TemplatesDir("tpl") THEN DescFull ELSE "png"]
    /\ dirs = {basedir} \cup ancestors(TemplatesDir("tpl"))
                \cup ancestors(TemplateIconsDir("tpl"))
                \cup {join(basedir, vm) : vm \in VMs}
    /\ mtime = [p \in {join(TemplateIconsDir("tpl"), n) : n \in IconNames} |-> 0]
    /\ now = 0
    /\ pc = "idle"
    /\ op = NoOp
    /\ trace = <<>>
    /\ ret = <<>>
    /\ lastsync = NoSync
    /\ edits = 0

NextReaders ==
    \/ Create(FALSE)
    \/ AppiconsCreate
    \/ GetWhitelist
    \/ Return

SpecReaders == InitReaders /\ [][NextReaders]_vars

(***************************************************************************)
(* What an operation did, read from its trace tr.                          *)
(***************************************************************************)
Events(tr, kind) == {i \in 1..Len(tr) : tr[i].t = kind}

\* the paths written, unlinked, and passed to the registrar
Written(tr) == {tr[i].path : i \in Events(tr, "write")}

Unlinked(tr) == UNION {tr[i].paths : i \in Events(tr, "unlink")}

Calls(tr, cmd) == {i \in Events(tr, "call") : tr[i].cmd = cmd}

Registered(tr, cmd) == UNION {Range(tr[i].args) : i \in Calls(tr, cmd)}

\* the events of the disposable pass (those after its "pass" mark)
InDispPass(tr, i) == \E j \in Events(tr, "pass") : j < i /\ tr[j].dispvm

\* the step taken is an appmenus_create of a VM that is not skipped
CreateStep ==
    pc = "idle" /\ pc' = "done" /\ op'.name = "appmenus_create" /\ ~skipped(target)

\* an appmenus_create of a VM that is not skipped has completed
Synced ==
    pc = "done" /\ op.name = "appmenus_create" /\ op.exc = "" /\ ~skipped(target)

\* nothing a sync reads, and nothing in the apps directory, has changed
\* since the last sync completed
SinceLastSync ==
    /\ lastsync.done
    /\ lastsync.inputs = Inputs(target)
    /\ lastsync.apps = AppsFiles(files, target)

(***************************************************************************)
(* What the specification expects, stated without the code's operators.    *)
(***************************************************************************)
\* the VM k templates up from vm, NoVM past the end of the chain
Ancestor(vm, k) == Hop([v \in VMs |-> vms[v].template], vm, k)

\* the number of templates above vm
Depth(vm) == Cardinality({k \in 1..Cardinality(VMs) : Ancestor(vm, k) # NoVM})

\* the descriptor names available to vm, and the nearest copy of each
HasDescriptor(fs, vm, n) == (basedir \o "/" \o vm \o "/apps.templates/" \o n) \in DOMAIN fs

AvailableNames(fs, vm) ==
    {n \in DescNames : \E k \in 0..Depth(vm) : HasDescriptor(fs, Ancestor(vm, k), n)}

NearestLevel(fs, vm, n) ==
    CHOOSE k \in 0..Depth(vm) :
        /\ HasDescriptor(fs, Ancestor(vm, k), n)
        /\ \A j \in 0..(k - 1) : ~HasDescriptor(fs, Ancestor(vm, j), n)

NearestCopy(fs, vm, n) ==
    basedir \o "/" \o Ancestor(vm, NearestLevel(fs, vm, n)) \o "/apps.templates/" \o n

\* the whitelist in effect: the names the feature value names, else the
\* names the legacy list names, else every name
Named(text) == {n \in DescNames : contains(text, n)}

Admitted(fs, vm) ==
    IF "menu-items" \in DOMAIN features[vm]
    THEN AvailableNames(fs, vm) \cap Named(features[vm]["menu-items"])
    ELSE IF (basedir \o "/" \o vm \o "/whitelisted-appmenus.list") \in DOMAIN fs
    THEN AvailableNames(fs, vm) \cap Named(fs[basedir \o "/" \o vm \o "/whitelisted-appmenus.list"])
    ELSE AvailableNames(fs, vm)

\* the files of the apps directory of vm
AppsPath(vm, name) == basedir \o "/" \o vm \o "/apps/" \o name

NormalLauncher(vm, n) == AppsPath(vm, "org.qubes-os.vm." \o vm \o "." \o n)

DispLauncher(vm, n) == AppsPath(vm, "org.qubes-os.dispvm." \o vm \o "." \o n)

SettingsLauncher(vm) == AppsPath(vm, "org.qubes-os.qubes-vm-settings." \o vm \o ".desktop")

NormalDirectory(vm) == AppsPath(vm, "qubes-vm-directory-" \o vm \o ".directory")

DispDirectory(vm) == AppsPath(vm, "qubes-dispvm-directory-" \o vm \o ".directory")

\* the files each pass of a sync manages
NormalManaged(fs, vm) ==
    {NormalDirectory(vm), SettingsLauncher(vm)}
    \cup {NormalLauncher(vm, n) : n \in Admitted(fs, vm)}

DispManaged(fs, vm) ==
    {DispDirectory(vm)} \cup {DispLauncher(vm, n) : n \in Admitted(fs, vm)}

(***************************************************************************)
(* The properties.                                                         *)
(***************************************************************************)
\* C1: when appmenus_create runs with force=False on a VM that is not
\* skipped and nothing it reads or wrote has changed since the last sync
\* completed, it creates, rewrites and deletes no file and issues no
\* xdg-desktop-menu install or uninstall call.
C1_Idempotent ==
    [][CreateStep /\ ~op'.force /\ SinceLastSync =>
          /\ files' = files
          /\ dirs' = dirs
          /\ Written(trace') = {}
          /\ Unlinked(trace') = {}
          /\ Events(trace', "call") = {}]_vars

\* C5: in a sync of a VM with the disposable variant enabled, the normal
\* pass neither unlinks nor uninstalls a file the disposable pass manages,
\* and the disposable pass neither unlinks nor uninstalls a file the normal
\* pass manages (normal launchers, normal directory entry, settings
\* launcher).
C5_CrossPass ==
    Synced /\ dispvm_enabled(target) =>
        \A i \in Events(trace, "unlink") \cup Calls(trace, "uninstall") :
            LET touched == IF trace[i].t = "unlink" THEN trace[i].paths
                           ELSE Range(trace[i].args)
            IN  IF InDispPass(trace, i)
                THEN touched \cap NormalManaged(files, target) = {}
                ELSE touched \cap DispManaged(files, target) = {}

\* C6: after every completed appmenus_create of a VM that is not skipped
\* the settings launcher exists in the apps directory of the VM.
C6_SettingsExists ==
    Synced => SettingsLauncher(target) \in DOMAIN files

WhitelistSet(fe, src, vm) ==
    "menu-items" \in DOMAIN fe
    \/ (basedir \o "/" \o vm \o "/whitelisted-appmenus.list") \in DOMAIN src

WhitelistNames(fe, src, vm) ==
    IF "menu-items" \in DOMAIN fe THEN Named(fe["menu-items"])
    ELSE Named(src[basedir \o "/" \o vm \o "/whitelisted-appmenus.list"])

\* between the last sync and now only the whitelist changed
OnlyWhitelistChanged ==
    /\ lastsync.done
    /\ lastsync.apps = AppsFiles(files, target)
    /\ \A k \in {"appmenus-dispvm", "internal"} :
         /\ k \in DOMAIN lastsync.inputs.features <=> k \in DOMAIN features[target]
         /\ k \in DOMAIN features[target] => lastsync.inputs.features[k] = features[target][k]
    /\ \A p \in (DOMAIN lastsync.inputs.src \cup InputPaths(target)) \ {whitelist_path(target)} :
         /\ p \in DOMAIN lastsync.inputs.src /\ p \in DOMAIN files
         /\ lastsync.inputs.src[p] = files[p]

\* the whitelist was {A, B} at the last sync and is {A} now
Narrowed(A, B) ==
    /\ A # B
    /\ OnlyWhitelistChanged
    /\ WhitelistSet(lastsync.inputs.features, lastsync.inputs.src, target)
    /\ WhitelistNames(lastsync.inputs.features, lastsync.inputs.src, target) = {A, B}
    /\ WhitelistSet(features[target], files, target)
    /\ WhitelistNames(features[target], files, target) = {A}

\* C3: when a VM was synced with whitelist {A, B} and the whitelist is then
\* narrowed to {A}, the next appmenus_create deletes each launcher file of B,
\* passes its path to exactly one xdg-desktop-menu uninstall call, and
\* neither rewrites, deletes nor uninstalls a launcher file of A.
C3_StaleCleanup ==
    [][\A A \in DescNames, B \in DescNames :
          CreateStep /\ Narrowed(A, B) =>
              /\ \A p \in {NormalLauncher(target, B), DispLauncher(target, B)} \cap DOMAIN files :
                   /\ p \notin DOMAIN files'
                   /\ p \in Unlinked(trace')
                   /\ Cardinality({i \in Calls(trace', "uninstall") :
                                      p \in Range(trace'[i].args)}) = 1
              /\ \A p \in {NormalLauncher(target, A), DispLauncher(target, A)} \cap DOMAIN files :
                   /\ p \in DOMAIN files' /\ files'[p] = files[p]
                   /\ p \notin Written(trace')
                   /\ p \notin Unlinked(trace')
                   /\ p \notin Registered(trace', "uninstall")]_vars

\* a sync that, with the whitelist narrowed since the last sync, unlinked
\* the launcher of the name dropped and kept the launcher of the name left
C3_Witness ==
    /\ Synced
    /\ \E A \in DescNames, B \in DescNames :
         /\ A # B
         /\ WhitelistSet(features[target], files, target)
         /\ WhitelistNames(features[target], files, target) = {A}
         /\ NormalLauncher(target, B) \in Unlinked(trace)
         /\ NormalLauncher(target, B) \in Registered(trace, "uninstall")
         /\ NormalLauncher(target, A) \in DOMAIN files
         /\ NormalLauncher(target, A) \notin Written(trace)

\* the descriptors whose content differs from what the last sync read
Modified ==
    {p \in InputPaths(target) \cap DOMAIN lastsync.inputs.src :
        files[p] # lastsync.inputs.src[p]}

\* between the last sync and now the content of exactly one descriptor
\* changed and nothing else did
OneDescriptorModified ==
    /\ lastsync.done
    /\ lastsync.apps = AppsFiles(files, target)
    /\ lastsync.inputs.features = features[target]
    /\ DOMAIN lastsync.inputs.src = InputPaths(target)
    /\ Cardinality(Modified) = 1
    /\ whitelist_path(target) \notin Modified

\* C4: when the content of exactly one descriptor changed between two
\* syncs of a VM and nothing else did, the second appmenus_create (force
\* not set) writes no file but the launcher of that descriptor, leaves every
\* other file of the apps directory as it was, and passes no launcher but
\* that one to the install call.
C4_ChangeDetection ==
    [][CreateStep /\ ~op'.force /\ OneDescriptorModified =>
          LET n == basename(CHOOSE p \in Modified : TRUE)
              mine == {NormalLauncher(target, n), DispLauncher(target, n)}
              others(fs) == [p \in {q \in DOMAIN fs : startswith(q, AppsPath(target, ""))}
                                    \ mine |-> fs[p]]
          IN  /\ Written(trace') \subseteq mine
              /\ others(files') = others(files)
              /\ Registered(trace', "install")
                     \subseteq mine \cup {NormalDirectory(target), DispDirectory(target)}]_vars

\* a descriptor that has a launch command and no disposable launch command
Unsupported(text) ==
    contains(text, "\nExec=") /\ ~contains(text, "\nX-Qubes-DispvmExec=")

\* C8: after a sync with the disposable variant, an admitted descriptor
\* that has an Exec field and no X-Qubes-DispvmExec field has no disposable
\* launcher on disk, even if an earlier run had written one, and every
\* other admitted descriptor has its disposable launcher: the pass went on.
C8_DispSkip ==
    Synced /\ dispvm_enabled(target) =>
        \A n \in Admitted(files, target) :
            IF Unsupported(files[NearestCopy(files, target, n)])
            THEN DispLauncher(target, n) \notin DOMAIN files
            ELSE DispLauncher(target, n) \in DOMAIN files

\* a disposable pass that unlinked the launcher an earlier run had written
\* for a descriptor that no longer supports disposables, and that kept the
\* launcher of another descriptor
C8_Witness ==
    /\ Synced /\ dispvm_enabled(target)
    /\ \E n \in Admitted(files, target), m \in Admitted(files, target) :
         /\ Unsupported(files[NearestCopy(files, target, n)])
         /\ DispLauncher(target, n) \in Unlinked(trace)
         /\ ~Unsupported(files[NearestCopy(files, target, m)])
         /\ DispLauncher(target, m) \in DOMAIN files

\* the VM has the feature 'menu-items' and a legacy list file
BothWhitelists ==
    /\ "menu-items" \in DOMAIN features[target]
    /\ (basedir \o "/" \o target \o "/whitelisted-appmenus.list") \in DOMAIN files

\* the names the feature of the VM names, in the order it names them
FeatureNames == Named(features[target]["menu-items"])

FeatureList ==
    IF FeatureNames = {} THEN <<>>
    ELSE CHOOSE l \in Perms(FeatureNames) :
             \A i \in 1..Len(l), j \in 1..Len(l) :
                 i < j => find(features[target]["menu-items"], l[i], 1)
                              < find(features[target]["menu-items"], l[j], 1)

\* the icon of a descriptor name
IconOf(n) == SubSeq(n, 1, Len(n) - Len(".desktop")) \o ".png"

\* C7: when a VM has both the feature 'menu-items' and a legacy list file,
\* the launchers launcher sync leaves, the icons icon sync leaves and the
\* list get_whitelist yields are those of the names the feature names,
\* whatever the legacy file holds.
C7_FeatureFirst ==
    pc = "done" /\ ~skipped(target) /\ BothWhitelists =>
        /\ op.name = "appmenus_create" =>
             {n \in DescNames : NormalLauncher(target, n) \in DOMAIN files}
                 = AvailableNames(files, target) \cap FeatureNames
        /\ op.name = "appicons_create" =>
             {p \in DOMAIN files : startswith(p, basedir \o "/" \o target \o "/apps.icons/")}
                 = {basedir \o "/" \o target \o "/apps.icons/" \o IconOf(n) : n \in FeatureNames}
        /\ op.name = "get_whitelist" => ret = FeatureList

\* a launcher sync of a VM whose feature names one descriptor and whose
\* legacy list names another: only the launcher of the first is there
C7_Witness ==
    /\ Synced /\ BothWhitelists
    /\ \E A \in DescNames, B \in DescNames :
         /\ A # B
         /\ FeatureNames = {A}
         /\ B \in Named(files[basedir \o "/" \o target \o "/whitelisted-appmenus.list"])
         /\ B \in AvailableNames(files, target)
         /\ NormalLauncher(target, A) \in DOMAIN files
         /\ NormalLauncher(target, B) \notin DOMAIN files

\* the directories the chain of vm resolves to, nearest first
ChainDirs(vm, sub) ==
    [i \in 1..(Depth(vm) + 1) |-> basedir \o "/" \o Ancestor(vm, i - 1) \o "/" \o sub]

\* C9: templates_dirs and template_icons_dirs of a VM whose template chain
\* has depth n return n+1 directories, the VM's own first and then each
\* ancestor's nearest first; with an override template, templates_dirs
\* returns the VM's own directory and then the chain of the override; and
\* every descriptor get_available_filenames lists is the copy in the nearest
\* directory of the chain that holds the name.
C9_Resolution ==
    pc = "done" =>
        /\ op.name = "templates_dirs" /\ op.template = NoVM =>
             ret = ChainDirs(target, "apps.templates")
        /\ op.name = "templates_dirs" /\ op.template # NoVM =>
             ret = <<basedir \o "/" \o target \o "/apps.templates">>
                       \o ChainDirs(op.template, "apps.templates")
        /\ op.name = "template_icons_dirs" =>
             ret = ChainDirs(target, "apps.tempicons")
        /\ op.name = "get_available_filenames" /\ op.template = NoVM =>
             \A i \in 1..Len(ret) :
                 \E n \in AvailableNames(files, target) :
                     ret[i] = NearestCopy(files, target, n)

\* templates_dirs of a VM two templates deep returned three directories
C9_Witness ==
    /\ pc = "done" /\ op.name = "templates_dirs" /\ op.template = NoVM
    /\ Depth(target) = 2
    /\ Len(ret) = 3
    /\ ret[3] = basedir \o "/" \o Ancestor(target, 2) \o "/apps.templates"

\* the directories get_available_filenames walks: those of the resolved
\* list that exist
WalkedDirs == SelectSeq(templates_dirs(op.vm, op.template), LAMBDA d : d \in dirs)

\* C10: get_available_filenames lists no file name twice, lists each name
\* by its path in the first directory of the resolved list that holds it,
\* lists every name that some existing directory of the list holds, and
\* passes over the directories of the list that do not exist.
C10_Dedup ==
    pc = "done" /\ op.name = "get_available_filenames" =>
        /\ \A i \in 1..Len(ret), j \in 1..Len(ret) :
               basename(ret[i]) = basename(ret[j]) => i = j
        /\ \A i \in 1..Len(ret) :
               \E k \in 1..Len(WalkedDirs) :
                   /\ ret[i] = WalkedDirs[k] \o "/" \o basename(ret[i])
                   /\ ret[i] \in DOMAIN files
                   /\ \A j \in 1..(k - 1) :
                          (WalkedDirs[j] \o "/" \o basename(ret[i])) \notin DOMAIN files
        /\ \A k \in 1..Len(WalkedDirs), n \in DescNames :
               (WalkedDirs[k] \o "/" \o n) \in DOMAIN files
                   => \E i \in 1..Len(ret) : basename(ret[i]) = n

\* a listing over a chain whose nearest directory does not exist and whose
\* two other directories both hold the same name: it is listed once
C10_Witness ==
    /\ pc = "done" /\ op.name = "get_available_filenames" /\ op.template = NoVM
    /\ Depth(target) = 2
    /\ (basedir \o "/" \o target \o "/apps.templates") \notin dirs
    /\ \E n \in DescNames :
         /\ HasDescriptor(files, Ancestor(target, 1), n)
         /\ HasDescriptor(files, Ancestor(target, 2), n)
         /\ ret = <<NearestCopy(files, target, n)>>

(***************************************************************************)
(* Registrar failures and removal.                                         *)
(***************************************************************************)
\* the step taken is an appmenus_remove, an appicons_remove
RemoveStep == pc = "idle" /\ pc' = "done" /\ op'.name = "appmenus_remove"

IconsRemoveStep == pc = "idle" /\ pc' = "done" /\ op'.name = "appicons_remove"

\* what an operation did apart from how the registrar answered: the trace
\* without the warnings, each call with the set of its arguments
Skeleton(tr) ==
    LET kept == SelectSeq(tr, LAMBDA e : e.t # "warn")
    IN  [i \in 1..Len(kept) |->
            IF kept[i].t = "call"
            THEN [t |-> "call", cmd |-> kept[i].cmd, noupdate |-> kept[i].noupdate,
                  args |-> Range(kept[i].args)]
            ELSE kept[i]]

\* every registrar call of tr that failed is followed by a warning at once,
\* and there is no other warning
FailuresWarned(tr) ==
    /\ \A i \in Events(tr, "call") :
         ~tr[i].ok => i < Len(tr) /\ tr[i + 1].t = "warn"
    /\ \A i \in Events(tr, "warn") :
         i > 1 /\ tr[i - 1].t = "call" /\ ~tr[i - 1].ok

\* C11: whatever each xdg-desktop-menu call of a sync or a removal exits
\* with, the operation ends without an exception and with the same files
\* and directories, and it makes the same calls, writes and deletions in
\* the same order; a call that exits non-zero gives a warning and nothing
\* else.
C11_RegistrarDecoupled ==
    [][/\ CreateStep =>
            /\ FailuresWarned(trace')
            /\ \A order \in ListingOrders :
                 LET outs == appmenus_create(Running, target, op'.force,
                                             op'.refresh_cache, order, FALSE)
                 IN  \A out \in outs :
                        /\ out.exc = ""
                        /\ out.files = files'
                        /\ out.dirs = dirs'
                        /\ (\E same \in outs : same.trace = trace')
                              => Skeleton(out.trace) = Skeleton(trace')
       /\ RemoveStep =>
            /\ FailuresWarned(trace')
            /\ \A out \in appmenus_remove(Running, target, op'.live,
                                          op'.refresh_cache, op'.kde) :
                  /\ out.exc = ""
                  /\ out.files = files'
                  /\ out.dirs = dirs'
                  /\ Skeleton(out.trace) = Skeleton(trace')]_vars

\* a sync whose uninstall call and whose install call both failed: the
\* files of the uninstall call are gone and the launchers are there
C11_Witness ==
    /\ Synced
    /\ \E i \in Calls(trace, "uninstall"), j \in Calls(trace, "install") :
         /\ i < j
         /\ ~trace[i].ok /\ ~trace[j].ok
         /\ Range(trace[i].args) \cap DOMAIN files = {}
         /\ Range(trace[i].args) \subseteq Unlinked(trace)
         /\ Range(trace[j].args) \subseteq DOMAIN files
         /\ SettingsLauncher(target) \in Range(trace[j].args)

\* the files below the apps directory and the icons directory of vm
AppsDirFiles(fs, vm) == {p \in DOMAIN fs : startswith(p, basedir \o "/" \o vm \o "/apps/")}

IconsDirFiles(fs, vm) == {p \in DOMAIN fs : startswith(p, basedir \o "/" \o vm \o "/apps.icons/")}

\* C17: appmenus_remove, given a VM object or a name, passes every file of
\* the apps directory to an xdg-desktop-menu uninstall call and afterwards
\* deletes the directory with all that is in it, also when an uninstall
\* call exits non-zero; appicons_remove deletes the icons directory with
\* all that is in it.
C17_RemoveAll ==
    [][/\ RemoveStep =>
            /\ \A p \in AppsDirFiles(files, target) :
                 \E i \in Calls(trace', "uninstall") :
                    /\ p \in Range(trace'[i].args)
                    /\ \E k \in Events(trace', "rmtree") : i < k
            /\ AppsDirFiles(files', target) = {}
            /\ (basedir \o "/" \o target \o "/apps") \notin dirs'
       /\ IconsRemoveStep =>
            /\ IconsDirFiles(files', target) = {}
            /\ (basedir \o "/" \o target \o "/apps.icons") \notin dirs']_vars

\* a removal by name of a directory that held files of the old and of the
\* new naming scheme: two uninstall calls, one of which failed, and then
\* the directory is gone
C17_Witness ==
    /\ pc = "done" /\ op.name = "appmenus_remove" /\ ~op.live
    /\ Cardinality(Calls(trace, "uninstall")) = 2
    /\ \E i \in Calls(trace, "uninstall") :
         /\ ~trace[i].ok
         /\ SettingsLauncher(target) \in Range(trace[i].args)
    /\ trace[Len(trace)].t = "rmtree"
    /\ (basedir \o "/" \o target \o "/apps") \notin dirs
    /\ (basedir \o "/" \o target \o "/apps.icons") \notin dirs

\* the registrar calls of the normal pass (d = FALSE) and of the disposable
\* pass (d = TRUE) in the trace tr
PassCalls(tr, d) == {i \in Events(tr, "call") : InDispPass(tr, i) = d}

\* the launchers a pass is to install for vm: the directory entry and the
\* launcher of every admitted descriptor the pass can render, and in the
\* normal pass the settings launcher
PassTargets(fs, vm, d) ==
    IF d
    THEN {DispDirectory(vm)}
         \cup {DispLauncher(vm, n) :
                 n \in {x \in Admitted(fs, vm) : ~Unsupported(fs[NearestCopy(fs, vm, x)])}}
    ELSE NormalManaged(fs, vm)

\* C12: the first appmenus_create of a VM whose apps directory is empty or
\* absent, run with refresh_cache=False, makes one registrar call in each
\* pass and no uninstall call; the call is 'xdg-desktop-menu install
\* --noupdate' with the directory entry and every target launcher (the
\* settings launcher among them in the normal pass) as its arguments.  Every
\* registrar call has --noupdate exactly when refresh_cache is False.
C12_FirstSync ==
    [][CreateStep =>
          /\ \A i \in Events(trace', "call") : trace'[i].noupdate <=> ~op'.refresh_cache
          /\ AppsDirFiles(files, target) = {} /\ ~op'.refresh_cache =>
               /\ Calls(trace', "uninstall") = {}
               /\ \A d \in {FALSE} \cup (IF dispvm_enabled(target) THEN {TRUE} ELSE {}) :
                    \E i \in PassCalls(trace', d) :
                       /\ PassCalls(trace', d) = {i}
                       /\ trace'[i].cmd = "install"
                       /\ trace'[i].noupdate
                       /\ Len(trace'[i].args) = Cardinality(Range(trace'[i].args))
                       /\ Range(trace'[i].args) = PassTargets(files, target, d)]_vars

\* a VM that gets no menu: its feature 'internal' is set, or it is a
\* disposable that is cleaned up automatically
NoMenu(vm) ==
    \/ "internal" \in DOMAIN features[vm] /\ features[vm]["internal"] # ""
    \/ vms[vm].klass = "DispVM" /\ vms[vm].auto_cleanup

\* C13: appmenus_create and appicons_create of a VM whose feature
\* 'internal' is set, or of a DispVM with auto_cleanup, create, modify and
\* delete no file and no directory and make no external call (registrar,
\* cache rebuild, icon tint): what was generated before stays as it is.
C13_Skipped ==
    [][/\ pc = "idle" /\ pc' = "done"
       /\ op'.name \in {"appmenus_create", "appicons_create"}
       /\ NoMenu(target)
       => /\ files' = files
          /\ dirs' = dirs
          /\ mtime' = mtime
          /\ trace' = <<>>]_vars

\* a launcher sync of a VM that was synced, launchers and icons, before
\* its feature 'internal' was set: the launchers and icons are still there
C13_Witness ==
    /\ pc = "done" /\ op.name = "appmenus_create"
    /\ "internal" \in DOMAIN features[target]
    /\ trace = <<>>
    /\ SettingsLauncher(target) \in DOMAIN files
    /\ IconsDirFiles(files, target) # {}

(***************************************************************************)
(* Icons.                                                                  *)
(***************************************************************************)
\* the step taken is an appicons_create of a VM that gets a menu
IconsStep ==
    pc = "idle" /\ pc' = "done" /\ op'.name = "appicons_create" /\ ~NoMenu(target)

IconPath(vm, icon) == basedir \o "/" \o vm \o "/apps.icons/" \o icon

\* the sources of an icon along the template chain of vm, and the nearest
IconSourceAt(vm, k, icon) == basedir \o "/" \o Ancestor(vm, k) \o "/apps.tempicons/" \o icon

HasIconSource(fs, vm, icon) ==
    \E k \in 0..Depth(vm) : IconSourceAt(vm, k, icon) \in DOMAIN fs

NearestIconSource(fs, vm, icon) ==
    IconSourceAt(vm,
        CHOOSE k \in 0..Depth(vm) :
            /\ IconSourceAt(vm, k, icon) \in DOMAIN fs
            /\ \A j \in 0..(k - 1) : IconSourceAt(vm, j, icon) \notin DOMAIN fs,
        icon)

\* the expected set: the icons of the names the whitelist in effect names,
\* else every icon that has a source
ExpectedIcons(fs, vm) ==
    IF WhitelistSet(features[vm], fs, vm)
    THEN {IconOf(n) : n \in WhitelistNames(features[vm], fs, vm)}
    ELSE {icon \in IconNames : HasIconSource(fs, vm, icon)}

\* C14: after appicons_create of a VM that is not skipped every file of
\* the icons directory is in the expected set, and an icon that was there
\* before the pass and is not expected any more (the whitelist does not
\* name it, or its source is gone) is deleted by the pass.
C14_IconGC ==
    [][IconsStep =>
          /\ \A p \in IconsDirFiles(files', target) :
               basename(p) \in ExpectedIcons(files, target)
          /\ \A p \in IconsDirFiles(files, target) :
               basename(p) \notin ExpectedIcons(files, target)
                   => p \notin DOMAIN files' /\ p \in Unlinked(trace')]_vars

\* C15: after icon sync and launcher sync of a VM that has a whitelist
\* (the feature or the legacy file, also one that names nothing) the icons
\* directory holds the icons of the whitelisted launchers, no more and no
\* less, and the apps directory holds the whitelisted launchers: the two
\* agree on whether a whitelist is in effect.
C15_IconsMatch ==
    pc = "done" /\ ~NoMenu(target) /\ WhitelistSet(features[target], files, target) =>
        LET listed == AvailableNames(files, target)
                          \cap WhitelistNames(features[target], files, target)
        IN  /\ op.name = "appicons_create" =>
                 IconsDirFiles(files, target)
                     = {IconPath(target, IconOf(n)) :
                          n \in {x \in listed : HasIconSource(files, target, IconOf(x))}}
            /\ op.name = "appmenus_create" =>
                 {n \in DescNames : NormalLauncher(target, n) \in DOMAIN files} = listed

\* the destinations appicons_create has tinted
Tinted(tr) == {tr[i].dst : i \in Events(tr, "tint")}

\* C16: for every expected icon that has a source, appicons_create calls
\* tint, from the nearest source, exactly when the destination is absent,
\* or force is set, or the source's modification time is greater than the
\* destination's (not when they are equal); for an expected icon without a
\* source it makes no tint call.
C16_Regenerate ==
    [][IconsStep =>
          \A icon \in ExpectedIcons(files, target) :
             LET dst == IconPath(target, icon)
             IN  IF HasIconSource(files, target, icon)
                 THEN LET src == NearestIconSource(files, target, icon)
                      IN  /\ dst \in Tinted(trace') <=>
                                \/ dst \notin DOMAIN files
                                \/ op'.force
                                \/ mtime[src] > mtime[dst]
                          /\ \A i \in Events(trace', "tint") :
                                trace'[i].dst = dst => trace'[i].src = src
                 ELSE dst \notin Tinted(trace')]_vars

\* an icon sync, not forced, that regenerated the one icon whose source was
\* written after the clock had advanced and left alone the icon that is as
\* old as its source
C16_Witness ==
    /\ pc = "done" /\ op.name = "appicons_create" /\ ~op.force /\ ~NoMenu(target)
    /\ now > 0
    /\ \E a \in IconNames, b \in IconNames :
         /\ a # b
         /\ Tinted(trace) = {IconPath(target, a)}
         /\ mtime[NearestIconSource(files, target, a)] = now
         /\ IconPath(target, b) \in DOMAIN files
         /\ HasIconSource(files, target, b)
         /\ mtime[IconPath(target, b)] = mtime[NearestIconSource(files, target, b)]

(***************************************************************************)
(* Update.                                                                 *)
(***************************************************************************)
UpdateStep == pc = "idle" /\ pc' = "done" /\ op'.name = "appmenus_update"

\* the VMs based on vm, and those of them this GUI domain shows
Children(vm) == {c \in VMs : vms[c].template = vm}

Eligible(vm) == {c \in Children(vm) : vms[c].guivm = "dom0"}

\* all that is stored for vm
VMFiles(fs, vm) ==
    [p \in {q \in DOMAIN fs : startswith(q, basedir \o "/" \o vm \o "/")} |-> fs[p]]

VMDirs(ds, vm) == {d \in ds : startswith(d, basedir \o "/" \o vm \o "/")}

\* vm has its launchers and its icons
InSync(fs, vm) ==
    /\ NormalManaged(fs, vm) \subseteq DOMAIN fs
    /\ \A icon \in ExpectedIcons(fs, vm) :
         HasIconSource(fs, vm, icon) => IconPath(vm, icon) \in DOMAIN fs

\* the sync of vm failed and the failure was logged
Logged(tr, vm) ==
    \E i \in Events(tr, "error") :
       /\ tr[i].vm = vm
       /\ tr[i - 1].t = "tint" /\ startswith(tr[i - 1].dst, basedir \o "/" \o vm \o "/")

\* C18: appmenus_update of a template syncs the icons and launchers of the
\* template, then of those VMs based on it whose guivm is the local name,
\* and touches nothing of the VMs another GUI domain shows; an exception
\* in the sync of one child is caught and logged, and every other eligible
\* child is synced all the same.
C18_UpdateChildren ==
    [][UpdateStep =>
          IF op'.exc # ""
          THEN \A i \in Events(trace', "update") : trace'[i].vm = target
          ELSE /\ InSync(files', target)
               /\ \A c \in Children(target) \ Eligible(target) :
                    VMFiles(files', c) = VMFiles(files, c) /\ VMDirs(dirs', c) = VMDirs(dirs, c)
               /\ \A c \in Eligible(target) :
                    /\ InSync(files', c) \/ Logged(trace', c)
                    /\ \E i \in Events(trace', "update") :
                          /\ trace'[i].vm = c
                          /\ \E j \in Events(trace', "update") : j < i /\ trace'[j].vm = target
               /\ \A i \in Events(trace', "update") :
                    trace'[i].vm \in {target} \cup Eligible(target)]_vars

\* an update of a template with two eligible children: the sync of the
\* first failed and was logged, the second was synced after it
C18_Witness ==
    /\ pc = "done" /\ op.name = "appmenus_update" /\ op.exc = ""
    /\ \E c1 \in Eligible(target), c2 \in Eligible(target) :
         /\ c1 # c2
         /\ Logged(trace, c1)
         /\ ~InSync(files, c1)
         /\ \E i \in Events(trace, "error"), j \in Events(trace, "update") :
               i < j /\ trace[i].vm = c1 /\ trace[j].vm = c2
         /\ InSync(files, c2)
         /\ SettingsLauncher(c2) \in Written(trace)

\* the step taken is an appmenus_init of the target
InitStep == pc = "idle" /\ pc' = "done" /\ op'.name = "appmenus_init"

\* the VM an appmenus_init with the argument src takes its defaults from
InitSource(vm, src) == IF src # NoVM THEN src ELSE vms[vm].template

DefaultListPath(vm) == basedir \o "/" \o vm \o "/vm-whitelisted-appmenus.list"

HasDefaultFeature(vm) == "default-menu-items" \in DOMAIN features[vm]

HasDefaultList(vm) == vm # NoVM /\ (HasDefaultFeature(vm) \/ DefaultListPath(vm) \in DOMAIN files)

\* C19: when the source of an appmenus_init (the explicit src, else the
\* template of the VM) has a 'default-menu-items' feature or a legacy
\* vm-whitelisted-appmenus.list, the init sets 'menu-items' of the VM to
\* that list, the feature winning over the file; and a sync of a VM with
\* 'menu-items' set leaves in its apps directory the launchers of the
\* listed available descriptors, the settings launcher and the directory
\* entry, and nothing else.
C19_DefaultWhitelist ==
    [][/\ InitStep /\ HasDefaultList(InitSource(target, op'.src)) =>
            LET s == InitSource(target, op'.src)
            IN  /\ "menu-items" \in DOMAIN features'[target]
                /\ IF HasDefaultFeature(s)
                   THEN features'[target]["menu-items"] = features[s]["default-menu-items"]
                   ELSE Named(features'[target]["menu-items"])
                            = Named(files[DefaultListPath(s)])
       /\ CreateStep /\ ~dispvm_enabled(target) /\ "menu-items" \in DOMAIN features[target] =>
            AppsDirFiles(files', target) =
                {NormalDirectory(target), SettingsLauncher(target)}
                \cup {NormalLauncher(target, n) :
                        n \in AvailableNames(files, target)
                              \cap Named(features[target]["menu-items"])}]_vars

\* a sync of work after an init that took the list of tpl: tpl has both the
\* feature and the legacy file, the feature names a.desktop only
C19_Witness ==
    /\ Synced
    /\ target = "work"
    /\ HasDefaultFeature("tpl")
    /\ DefaultListPath("tpl") \in DOMAIN files
    /\ Named(files[DefaultListPath("tpl")]) # Named(features["tpl"]["default-menu-items"])
    /\ "menu-items" \in DOMAIN features["work"]
    /\ features["work"]["menu-items"] = features["tpl"]["default-menu-items"]
    /\ HasDescriptor(files, "tpl", "b.desktop")
    /\ NormalLauncher("work", "a.desktop") \in DOMAIN files
    /\ NormalLauncher("work", "b.desktop") \notin DOMAIN files

SeedPath(vm) == basedir \o "/" \o vm \o "/apps.templates/qubes-start.desktop"

\* the bundled qubes-start.desktop.template, written as it is
SeedText == "[Desktop Entry]\nType=Application\nExec=qvm-start %VMNAME%\nIcon=%XDGICON%\nName=%VMNAME%: Start\n"

\* C20: an appmenus_init of a VM without template and with no src makes
\* the root of the VM, its apps.templates and its apps.tempicons directory
\* and writes one file, qubes-start.desktop in apps.templates, from the
\* bundled template; an init with a src or of a VM with a template writes
\* no seed: qubes-start.desktop is in apps.templates afterwards only if it
\* was there before or is a copy of the one of src.
C20_Bootstrap ==
    [][InitStep =>
          IF op'.src = NoVM /\ vms[target].template = NoVM
          THEN /\ {basedir \o "/" \o target,
                   basedir \o "/" \o target \o "/apps.templates",
                   basedir \o "/" \o target \o "/apps.tempicons"} \subseteq dirs'
               /\ Written(trace') = {SeedPath(target)}
               /\ DOMAIN files' = DOMAIN files \cup {SeedPath(target)}
               /\ files'[SeedPath(target)] = SeedText
               /\ \A p \in DOMAIN files \ {SeedPath(target)} : files'[p] = files[p]
          ELSE /\ Written(trace') = {}
               /\ SeedPath(target) \in DOMAIN files' =>
                    \/ SeedPath(target) \in DOMAIN files /\ files'[SeedPath(target)] = files[SeedPath(target)]
                    \/ /\ op'.src # NoVM
                       /\ SeedPath(op'.src) \in DOMAIN files
                       /\ files'[SeedPath(target)] = files[SeedPath(op'.src)]]_vars

\* tpl, without template, initialised from nothing
C20_Witness ==
    /\ pc = "done"
    /\ op.name = "appmenus_init"
    /\ op.src = NoVM
    /\ vms[target].template = NoVM
    /\ DOMAIN files = {SeedPath(target)}
    /\ files[SeedPath(target)] = SeedText
    /\ basedir \o "/" \o target \o "/apps.tempicons" \in dirs
    /\ Events(trace, "write") # {}

\* the files of the own apps.templates and apps.tempicons directory of vm
OwnSources(fs, vm) ==
    {p \in DOMAIN fs : \/ startswith(p, basedir \o "/" \o vm \o "/apps.templates/")
                      \/ startswith(p, basedir \o "/" \o vm \o "/apps.tempicons/")}

\* the path below the root of vm, and the same path below the root of
\* another VM
Below(vm, p) == SubSeq(p, Len(basedir \o "/" \o vm) + 1, Len(p))

CopyOf(vm, src, p) == basedir \o "/" \o vm \o Below(src, p)

\* C21: an appmenus_init with an explicit src leaves a copy of every file
\* of the own apps.templates and apps.tempicons directory of src in the
\* same directory of the VM, changes or adds no other file there (so
\* nothing that only a template of src holds is copied), and leaves every
\* file below the root of src as it was; an appmenus_init without src of a
\* VM with a template changes no file and copies nothing.
C21_CloneNearest ==
    [][InitStep =>
          IF op'.src # NoVM
          THEN /\ \A p \in OwnSources(files, op'.src) :
                    /\ CopyOf(target, op'.src, p) \in DOMAIN files'
                    /\ files'[CopyOf(target, op'.src, p)] = files[p]
               /\ \A q \in DOMAIN files' :
                    q \notin DOMAIN files \/ files'[q] # files[q] =>
                        \E p \in OwnSources(files, op'.src) : q = CopyOf(target, op'.src, p)
               /\ VMFiles(files', op'.src) = VMFiles(files, op'.src)
          ELSE vms[target].template # NoVM =>
                    files' = files /\ Events(trace', "copy") = {}]_vars

\* d1 is initialised from work, which holds a.desktop and a.png of its own
\* and inherits b.desktop and b.png from tpl
C21_Witness ==
    /\ pc = "done"
    /\ op.name = "appmenus_init"
    /\ target = "d1"
    /\ op.src = "work"
    /\ OwnSources(files, "work") # {}
    /\ OwnSources(files, "d1") = {CopyOf("d1", "work", p) : p \in OwnSources(files, "work")}
    /\ HasDescriptor(files, "tpl", "b.desktop")
    /\ ~HasDescriptor(files, "d1", "b.desktop")
    /\ files[CopyOf("d1", "work", basedir \o "/work/apps.templates/a.desktop")]
           = files[basedir \o "/work/apps.templates/a.desktop"]

\* C22: a feature 'menu-items', 'vm-menu-items' or 'netvm-menu-items' the
\* VM has before an appmenus_init has the same value after it.
C22_NoOverwrite ==
    [][InitStep =>
          \A k \in {"menu-items", "vm-menu-items", "netvm-menu-items"} :
              k \in DOMAIN features[target] =>
                  /\ k \in DOMAIN features'[target]
                  /\ features'[target][k] = features[target][k]]_vars

\* the features of vm other than key are what they were
OnlyFeature(vm, key) ==
    /\ \A v \in VMs \ {vm} : features'[v] = features[v]
    /\ DOMAIN features'[vm] = DOMAIN features[vm] \cup {key}
    /\ \A k \in DOMAIN features[vm] \ {key} : features'[vm][k] = features[vm][k]

ApiStep(name) == pc = "idle" /\ pc' = "done" /\ op'.name = name

\* C23: get_whitelist after set_whitelist(vm, L) yields L, in order, for
\* every list L of descriptor names; set_whitelist changes the feature
\* 'menu-items' of the VM and nothing else, set_default_whitelist the
\* feature 'default-menu-items' and nothing else (so not the whitelist in
\* effect), and get_whitelist changes no feature and no file.
C23_RoundTrip ==
    [][/\ ApiStep("set_whitelist get_whitelist") =>
            ret' = op'.list /\ OnlyFeature(target, "menu-items") /\ files' = files
       /\ ApiStep("set_whitelist") =>
            OnlyFeature(target, "menu-items") /\ files' = files /\ dirs' = dirs
       /\ ApiStep("set_default_whitelist") =>
            /\ OnlyFeature(target, "default-menu-items")
            /\ files' = files /\ dirs' = dirs
            /\ Admitted(files', target) = Admitted(files, target)
            /\ "menu-items" \in DOMAIN features'[target] <=> "menu-items" \in DOMAIN features[target]
       /\ ApiStep("get_whitelist") =>
            features' = features /\ files' = files /\ dirs' = dirs]_vars

\* a list of two names, the second first, set over a legacy list and
\* another value of the feature, and read back
C23_Witness ==
    /\ pc = "done"
    /\ op.name = "set_whitelist get_whitelist"
    /\ op.list = <<"b.desktop", "a.desktop">>
    /\ ret = <<"b.desktop", "a.desktop">>
    /\ "default-menu-items" \in DOMAIN features[target]
    /\ (basedir \o "/" \o target \o "/whitelisted-appmenus.list") \in DOMAIN files

\* vm has neither the feature 'menu-items' nor a legacy list file
WhitelistUnset(vm) ==
    /\ "menu-items" \notin DOMAIN features[vm]
    /\ (basedir \o "/" \o vm \o "/whitelisted-appmenus.list") \notin DOMAIN files

\* C24: get_whitelist of a VM with neither the feature 'menu-items' nor a
\* legacy list file gives None, and of a VM whose whitelist is set gives a
\* list, the empty list when it names nothing.
C24_UnsetIsNone ==
    pc = "done" /\ op.name = "get_whitelist" =>
        IF WhitelistUnset(target) THEN ret = None ELSE ret # None

RenderStep == pc = "idle" /\ pc' = "done" /\ op'.name = "write_desktop_file"

\* C25: two calls of write_desktop_file with the same source, VM and mode
\* leave the same content in their destinations, whatever the destinations
\* held and whatever ran before; each call reports a change exactly when
\* its destination was absent or held another content than the one it
\* leaves, and writes exactly then; no other file changes.
C25_Deterministic ==
    [][RenderStep /\ ~op'.raised =>
          LET first == op'.first
              second == op'.second
          IN  /\ first \in DOMAIN files' /\ second \in DOMAIN files'
              /\ files'[first] = files'[second]
              /\ ret'[1] <=> (first \notin DOMAIN files \/ files[first] # files'[first])
              /\ ret'[2] <=> /\ second # first
                             /\ (second \notin DOMAIN files \/ files[second] # files'[second])
              /\ Written(trace') = {d \in {first, second} :
                                        (d = first /\ ret'[1]) \/ (d = second /\ ret'[2])}
              /\ \A p \in (DOMAIN files \cup DOMAIN files') \ {first, second} :
                    p \in DOMAIN files /\ p \in DOMAIN files' /\ files'[p] = files[p]]_vars

\* both destinations held what earlier calls had rendered from other
\* sources or in the other mode: both were written and hold the same
\* content
C25_Witness ==
    /\ pc = "done"
    /\ op.name = "write_desktop_file"
    /\ ~op.raised
    /\ op.dispvm
    /\ op.first # op.second
    /\ ret = <<TRUE, TRUE>>
    /\ Written(trace) = {op.first, op.second}
    /\ files[op.first] = files[op.second]
    /\ \E p \in Destinations(target) \ {op.first, op.second} :
          p \in DOMAIN files /\ files[p] # files[op.first]

\* text has a line 'Name=%VMNAME%: ...' in a [Desktop Entry] section
HasMainName(text) ==
    LET lines == readlines(text)
    IN  \E i \in 1..Len(lines) :
            /\ startswith(lines[i], "Name=%VMNAME%: ")
            /\ \E j \in 1..(i - 1) :
                  /\ lines[j] = "[Desktop Entry]\n"
                  /\ \A k \in (j + 1)..(i - 1) : ~startswith(lines[k], "[")

\* the descriptors get_available walks that have no such line
MalformedAt(filenames) == {i \in 1..Len(filenames) : ~HasMainName(files[filenames[i]])}

\* C26: get_available raises when it reaches a descriptor that has no
\* 'Name=%VMNAME%: ' line in its [Desktop Entry] section: it has yielded a
\* record for each descriptor before that one, and yields none for it and
\* none for the descriptors after it; without such a descriptor it yields
\* a record for every descriptor and raises nothing.
C26_MalformedFatal ==
    pc = "done" /\ op.name = "get_available" =>
        LET bad == MalformedAt(op.filenames)
            stop == IF bad = {} THEN Len(op.filenames) + 1
                    ELSE CHOOSE i \in bad : \A j \in bad : i <= j
        IN  /\ op.exc # "" <=> bad # {}
            /\ Len(ret) = stop - 1
            /\ \A i \in 1..Len(ret) :
                  ret[i][1] = basename(op.filenames[i]) /\ ret[i][2] # None

\* the first descriptor walked has its only Name line in another section,
\* the second is well formed: the call raised and yielded nothing
C26_Witness ==
    /\ pc = "done"
    /\ op.name = "get_available"
    /\ Len(op.filenames) = 2
    /\ files[op.filenames[1]] = DescNameElsewhere
    /\ HasMainName(files[op.filenames[2]])
    /\ op.exc # ""
    /\ ret = <<>>

\* a step of an operation that calls _do_remove_appmenus once
RemovalStep ==
    pc = "idle" /\ pc' = "done" /\ op'.name \in {"appmenus_remove", "appmenus_create"}

\* names of the old naming scheme, and names the current scheme gives
\* launchers and the directory entry
OldSchemeName(p) ==
    LET name == SubSeq(p, Len(AppsPath(target, "")) + 1, Len(p))
    IN  /\ ~startswith(name, "org.qubes-os.")
        /\ ~startswith(name, "qubes-vm-directory-")
        /\ ~startswith(name, "qubes-dispvm-directory-")

CurrentSchemeName(p) ==
    LET name == SubSeq(p, Len(AppsPath(target, "")) + 1, Len(p))
    IN  startswith(name, "org.qubes-os.") \/ startswith(name, "qubes-vm-directory-")

\* the calls are at most two, none is empty, none mixes the two schemes and
\* no file of the old scheme is passed after one of the current scheme
BatchesInOrder(tr) ==
    LET U == Calls(tr, "uninstall")
    IN  /\ Cardinality(U) <= 2
        /\ \A i \in U : tr[i].args # <<>>
        /\ \A i \in U, j \in U :
              \A a \in Range(tr[i].args), b \in Range(tr[j].args) :
                  CurrentSchemeName(a) /\ OldSchemeName(b) => j < i

\* C27: _do_remove_appmenus makes at most two uninstall calls, none with
\* an empty argument list, the files of the old naming scheme in a call
\* before the one with the files of the current scheme; in the arguments of
\* each call every name ending in .directory comes after every other name.
C27_BatchOrder ==
    [][RemovalStep =>
          /\ BatchesInOrder(trace')
          /\ \A i \in Calls(trace', "uninstall") :
                \A x \in 1..Len(trace'[i].args), y \in 1..Len(trace'[i].args) :
                    /\ endswith(trace'[i].args[x], ".directory")
                    /\ ~endswith(trace'[i].args[y], ".directory")
                    => y < x]_vars

\* C27, as the code has it: _do_remove_appmenus makes at most two
\* uninstall calls, none with an empty argument list, the files of the old
\* naming scheme in a call before the one with the files of the current
\* scheme; in the arguments of each call every name ending in .directory
\* comes before every other name.
C27_BatchOrderDirectoriesFirst ==
    [][RemovalStep =>
          /\ BatchesInOrder(trace')
          /\ \A i \in Calls(trace', "uninstall") :
                \A x \in 1..Len(trace'[i].args), y \in 1..Len(trace'[i].args) :
                    /\ endswith(trace'[i].args[x], ".directory")
                    /\ ~endswith(trace'[i].args[y], ".directory")
                    => x < y]_vars

\* a removal that made two calls, each with a directory entry and another
\* file
C27_Witness ==
    /\ pc = "done"
    /\ op.name = "appmenus_remove"
    /\ Cardinality(Calls(trace, "uninstall")) = 2
    /\ \A i \in Calls(trace, "uninstall") :
          /\ \E a \in Range(trace[i].args) : endswith(a, ".directory")
          /\ \E a \in Range(trace[i].args) : ~endswith(a, ".directory")
    /\ \E i \in Calls(trace, "uninstall") : \A a \in Range(trace[i].args) : OldSchemeName(a)

\* the passes a sync of vm runs
Passes(vm) == IF dispvm_enabled(vm) THEN {FALSE, TRUE} ELSE {FALSE}

\* the directory entry of a pass, the files a pass wrote, its install calls
PassDirectory(vm, d) == IF d THEN DispDirectory(vm) ELSE NormalDirectory(vm)

PassWritten(tr, d) == {tr[i].path : i \in {j \in Events(tr, "write") : InDispPass(tr, j) = d}}

PassInstalls(tr, d) == {i \in Calls(tr, "install") : InDispPass(tr, i) = d}

\* only the directory entry changed in the pass, or force is set
FullInstall(tr, vm, d, force) ==
    force \/ PassWritten(tr, d) = {PassDirectory(vm, d)}

\* C28: in a pass with force set, or in which the directory entry changed
\* and no launcher did, the arguments of the install call are the directory
\* entry and every target launcher of the pass (the launchers rendered for
\* the admitted descriptors and, in the normal pass, the settings launcher);
\* in any other pass the launchers among the arguments of the install call
\* are the launchers the pass wrote.
C28_InstallArguments ==
    [][CreateStep =>
          \A d \in Passes(target) : \A i \in PassInstalls(trace', d) :
              IF FullInstall(trace', target, d, op'.force)
              THEN Range(trace'[i].args) = PassTargets(files, target, d)
              ELSE Range(trace'[i].args) \ {PassDirectory(target, d)}
                       = PassWritten(trace', d) \ {PassDirectory(target, d)}]_vars


\* something changed in the pass: it wrote its directory entry or a launcher
PassChanged(tr, d) == PassWritten(tr, d) # {}

\* C29: in every pass of a sync, an 'xdg-desktop-menu install' call is made
\* if and only if the pass wrote something (its directory entry or at least
\* one launcher) or force is set, and the call carries the directory entry;
\* so a pass that wrote its directory entry alone makes the call.
C29_InstallWhenNeeded ==
    [][CreateStep =>
          \A d \in Passes(target) :
              /\ (PassInstalls(trace', d) # {}) <=> (PassChanged(trace', d) \/ op'.force)
              /\ \A i \in PassInstalls(trace', d) :
                    PassDirectory(target, d) \in Range(trace'[i].args)]_vars

\* the pass has a launcher to register: the normal pass always has the
\* settings launcher, the disposable pass one launcher for each descriptor
\* the whitelist admits
PassHasLaunchers(fs, vm, d) == ~d \/ Admitted(fs, vm) # {}

\* C29 as the code has it: the install call is made if and only if the pass
\* wrote something or force is set, and the pass has at least one launcher
\* to register; the call carries the directory entry.  A disposable pass
\* with no admitted descriptor makes no install call, whatever it wrote.
C29_InstallWhenLaunchers ==
    [][CreateStep =>
          \A d \in Passes(target) :
              /\ (PassInstalls(trace', d) # {})
                    <=> /\ PassChanged(trace', d) \/ op'.force
                        /\ PassHasLaunchers(files, target, d)
              /\ \A i \in PassInstalls(trace', d) :
                    PassDirectory(target, d) \in Range(trace'[i].args)]_vars


\* a sync of a template for disposables with no admitted descriptor has
\* completed: its disposable pass wrote its directory entry and made no
\* install call, its normal pass made one
C29_Witness ==
    /\ pc = "done" /\ op.name = "appmenus_create" /\ op.exc = ""
    /\ dispvm_enabled(target) /\ ~skipped(target)
    /\ Admitted(files, target) = {}
    /\ PassWritten(trace, TRUE) = {DispDirectory(target)}
    /\ PassInstalls(trace, TRUE) = {}
    /\ \E i \in PassInstalls(trace, FALSE) : NormalDirectory(target) \in Range(trace[i].args)


\* the file p of the apps directory of vm has a name the current scheme
\* generates: a normal, disposable or settings launcher, or the directory
\* entry of the normal or of the disposable pass
GeneratedName(vm, p) ==
    LET name == SubSeq(p, Len(AppsPath(vm, "")) + 1, Len(p))
    IN  \/ startswith(name, "org.qubes-os.vm.")
        \/ startswith(name, "org.qubes-os.dispvm.")
        \/ startswith(name, "org.qubes-os.qubes-vm-settings.")
        \/ startswith(name, "qubes-vm-directory-")
        \/ startswith(name, "qubes-dispvm-directory-")

\* the uninstall calls of a pass
PassUninstalls(tr, d) == {i \in Calls(tr, "uninstall") : InDispPass(tr, i) = d}

\* C30: of the stale files a pass of a sync removes, those with a name the
\* current scheme generates (the directory entry qubes-dispvm-directory-*
\* among them) are all in one uninstall call, the current-scheme batch, and
\* every file with any other name is in an earlier call, the
\* old-naming-scheme batch.
C30_Classification ==
    [][CreateStep =>
          \A d \in Passes(target) : \A i \in PassUninstalls(trace', d), j \in PassUninstalls(trace', d) :
              \A a \in Range(trace'[i].args), b \in Range(trace'[j].args) :
                  /\ GeneratedName(target, a) /\ GeneratedName(target, b) => i = j
                  /\ GeneratedName(target, a) /\ ~GeneratedName(target, b) => j < i]_vars


\* C31: every file a pass of a sync deletes from the apps directory was
\* passed to an 'xdg-desktop-menu uninstall' call of the same pass before
\* it was deleted, the disposable launcher of a descriptor that no longer
\* supports disposables included.
C31_NoDeletionWithoutUninstall ==
    [][CreateStep =>
          \A i \in Events(trace', "unlink") : \A p \in trace'[i].paths :
              \E j \in Calls(trace', "uninstall") :
                  /\ j < i
                  /\ InDispPass(trace', j) = InDispPass(trace', i)
                  /\ p \in Range(trace'[j].args)]_vars

\* the file p exists when event i of the trace tr happens, fs being the
\* files the operation started with
ExistsAt(fs, tr, i, p) ==
    LET touched == {k \in 1..(i - 1) :
                       \/ tr[k].t = "write" /\ tr[k].path = p
                       \/ tr[k].t = "unlink" /\ p \in tr[k].paths}
    IN  IF touched = {} THEN p \in DOMAIN fs
        ELSE tr[CHOOSE k \in touched : \A l \in touched : l <= k].t = "write"

\* C32: every path passed to an 'xdg-desktop-menu install' call of a sync
\* names a file that exists when the call is made, in the normal and in the
\* disposable pass, with force set or not.
C32_InstallArgumentsExist ==
    [][CreateStep =>
          \A i \in Calls(trace', "install") : \A p \in Range(trace'[i].args) :
              ExistsAt(files, trace', i, p)]_vars


\* the descriptor names get_whitelist yields for vm as things are
Yielded(vm) == Range(get_whitelist(Running, vm))

\* the icons of the icons directory of vm
IconsPresent(fs, vm) == {n \in IconNames : (basedir \o "/" \o vm \o "/apps.icons/" \o n) \in DOMAIN fs}

\* C33: whatever the text of the feature 'menu-items' or of the legacy list
\* (several spaces or tabs between entries, whitespace around a name, blank
\* lines), the descriptors launcher sync admits are the available ones that
\* get_whitelist yields, and the icons icon sync keeps are the icons of the
\* names get_whitelist yields.
C33_OneWhitelist ==
    /\ (pc = "done" /\ op.name = "appmenus_create" /\ ~skipped(target)
        /\ WhitelistSet(features[target], files, target))
       => {n \in DescNames : NormalLauncher(target, n) \in DOMAIN files}
            = AvailableNames(files, target) \cap Yielded(target)
    /\ (pc = "done" /\ op.name = "appicons_create" /\ ~skipped(target)
        /\ WhitelistSet(features[target], files, target))
       => IconsPresent(files, target) = {IconOf(n) : n \in DescNames \cap Yielded(target)}


\* the "update" mark that opens the part of the trace event i belongs to
SyncOf(tr, i) == CHOOSE u \in Events(tr, "update") : u <= i /\ \A v \in Events(tr, "update") : v <= i => v <= u

\* C34: in appmenus_update the icons of each VM are synced before its
\* launchers, the template is processed before every child, every install
\* and uninstall call has --noupdate, and an update that returns has made
\* one 'xdg-desktop-menu forceupdate' call, after its last install or
\* uninstall call; an update that raises has made no install or uninstall
\* call.
C34_UpdateOrder ==
    [][UpdateStep =>
          /\ \A i \in Events(trace', "tint"), j \in Events(trace', "pass") :
                SyncOf(trace', i) = SyncOf(trace', j) => i < j
          /\ \A u \in Events(trace', "update") :
                trace'[u].vm # target => \E v \in Events(trace', "update") :
                                            v < u /\ trace'[v].vm = target
          /\ \A u \in Events(trace', "update"), v \in Events(trace', "update") :
                trace'[u].vm = target /\ trace'[v].vm = target => u = v
          /\ \A i \in Events(trace', "call") : trace'[i].noupdate
          /\ IF op'.exc = ""
             THEN /\ Cardinality(Events(trace', "forceupdate")) = 1
                  /\ \A f \in Events(trace', "forceupdate"), i \in Events(trace', "call") : i < f
             ELSE Events(trace', "call") = {} /\ Events(trace', "forceupdate") = {}]_vars

\* an update of a template with two eligible children has returned: each
\* of the three VMs had its icons tinted and then its launchers installed,
\* and forceupdate came last
C34_Witness ==
    /\ pc = "done" /\ op.name = "appmenus_update" /\ op.exc = ""
    /\ Cardinality(Eligible(target)) = 2
    /\ \A vm \in {target} \cup Eligible(target) :
          \E u \in Events(trace, "update"), i \in Events(trace, "tint"), j \in Calls(trace, "install") :
             /\ trace[u].vm = vm
             /\ SyncOf(trace, i) = u /\ SyncOf(trace, j) = u /\ i < j
    /\ \E f \in Events(trace, "forceupdate") : \A i \in Events(trace, "call") : i < f


\* C35: appmenus_update(vm, force=True) of a template forces the launcher
\* sync of every eligible child as it forces that of the template: the
\* sync of each child whose icons did not fail makes an install call with
\* the directory entry and every target launcher of the child, whether a
\* file of the child changed or not.
C35_ForceReachesChildren ==
    [][UpdateStep /\ op'.force /\ op'.exc = "" =>
          \A c \in Eligible(target) :
              \/ Logged(trace', c)
              \/ \E i \in Calls(trace', "install") :
                    /\ trace'[SyncOf(trace', i)].vm = c
                    /\ Range(trace'[i].args) = NormalManaged(files', c)]_vars


\* the operation left the file system as it found it
NothingChanged == files' = files /\ dirs' = dirs /\ mtime' = mtime

\* C36: appmenus_remove of a VM with no apps directory and appicons_remove
\* of a VM with no icons directory (never created, or removed by an earlier
\* call) make no uninstall call, announce and delete nothing, and leave
\* every file and directory as it was.
C36_RemoveIdempotent ==
    [][/\ (RemoveStep /\ (basedir \o "/" \o target \o "/apps") \notin dirs) =>
            /\ NothingChanged
            /\ Events(trace', "call") = {}
            /\ Events(trace', "info") = {} /\ Events(trace', "warn") = {}
            /\ Events(trace', "unlink") = {} /\ Events(trace', "rmtree") = {}
       /\ (IconsRemoveStep /\ (basedir \o "/" \o target \o "/apps.icons") \notin dirs) =>
            NothingChanged /\ trace' = <<>>]_vars

\* an appmenus_remove of a VM with neither directory has completed: it did
\* nothing but refresh the KDE cache
C36_Witness ==
    /\ pc = "done" /\ op.name = "appmenus_remove" /\ op.refresh_cache /\ op.kde
    /\ (basedir \o "/" \o target \o "/apps") \notin dirs
    /\ (basedir \o "/" \o target \o "/apps.icons") \notin dirs
    /\ Events(trace, "rmtree") = {}
    /\ trace = <<[t |-> "kbuildsycoca"]>>


\* the step taken is a launcher sync or an icon sync of the target
SyncStep ==
    pc = "idle" /\ pc' = "done" /\ op'.name \in {"appmenus_create", "appicons_create"}

\* p is the apps or the apps.icons directory of vm, or is inside one of them
InOwnDirs(vm, p) ==
    \/ p \in {basedir \o "/" \o vm \o "/apps", basedir \o "/" \o vm \o "/apps.icons"}
    \/ startswith(p, basedir \o "/" \o vm \o "/apps/")
    \/ startswith(p, basedir \o "/" \o vm \o "/apps.icons/")

\* C37: appmenus_create and appicons_create of a VM write, create and
\* delete files and directories only in the apps and apps.icons directories
\* of that VM: every other file (the descriptors and icon sources of the VM
\* and of its templates, the legacy whitelist, all that other VMs hold)
\* keeps its content and its modification time, and no feature of any VM
\* changes.
C37_SyncFrame ==
    [][SyncStep =>
          /\ \A p \in DOMAIN files \cup DOMAIN files' :
                ~InOwnDirs(target, p) =>
                    /\ p \in DOMAIN files /\ p \in DOMAIN files'
                    /\ files'[p] = files[p]
                    /\ (p \in DOMAIN mtime <=> p \in DOMAIN mtime')
                    /\ (p \in DOMAIN mtime => mtime'[p] = mtime[p])
          /\ \A d \in (dirs \ dirs') \cup (dirs' \ dirs) : InOwnDirs(target, d)
          /\ \A i \in Events(trace', "write") : InOwnDirs(target, trace'[i].path)
          /\ \A i \in Events(trace', "tint") : InOwnDirs(target, trace'[i].dst)
          /\ \A p \in Unlinked(trace') : InOwnDirs(target, p)
          /\ features' = features]_vars

\* a launcher sync has written and deleted launchers of a VM that has a
\* legacy whitelist; an icon sync has tinted icons of such a VM
C37_Witness ==
    /\ pc = "done"
    /\ whitelist_path(target) \in DOMAIN files
    /\ \/ op.name = "appmenus_create" /\ Written(trace) # {} /\ Unlinked(trace) # {}
       \/ op.name = "appicons_create" /\ Events(trace, "tint") # {}

=============================================================================
